---- MODULE Spec2Model ----
(***************************************************************************)
(* Verification model of the TRANSFER-OPERATIONS mail dispatcher           *)
(* (src/distributor.py): sender/domain classification, hot-reload          *)
(* configuration store, round-robin rotation, and the per-tick routing     *)
(* pipeline with its idempotency ledger and poison quarantine.             *)
(***************************************************************************)
EXTENDS Integers, Sequences, FiniteSets, TLC

None == "None"

(***************************************************************************)
(* PART 1.  Sender / domain classification (pure functions)                *)
(***************************************************************************)

\* A sender string as resolve_sender_smtp returns it (lower-cased, stripped):
\*   form "smtp"  : local@domain
\*   form "angle" : display name <local@domain>
\*   form "x500"  : an Exchange legacy DN, no "@" in it
Addr(l, d) == [local |-> l, domain |-> d]

PolicyAddrs == {Addr("requests", "bensonradiology.com.au")}

PolicyDomains == {"bensonradiology.com.au", "sa.gov.au"}

SenderStrings ==
    { [form |-> "smtp",  local |-> "requests", domain |-> "bensonradiology.com.au"],
      [form |-> "angle", local |-> "requests", domain |-> "bensonradiology.com.au"],
      [form |-> "smtp",  local |-> "admin",    domain |-> "bensonradiology.com.au"],
      [form |-> "smtp",  local |-> "requests", domain |-> "sa.gov.au"],
      [form |-> "smtp",  local |-> "sales",    domain |-> "randomvendor.com"],
      [form |-> "x500",  local |-> "requests", domain |-> "bensonradiology.com.au"] }

\* normalize_sender_for_policy: strips "smtp:", takes the address inside <...>,
\* validates with normalize_email; a string without "@" normalises to None.
NoAddr == Addr(None, None)

normalize_sender_for_policy(raw) ==
    IF raw.form = "x500" THEN NoAddr ELSE Addr(raw.local, raw.domain)

\* extract_sender_domain: the part after the last "@", or None.
extract_sender_domain(sender_email) ==
    IF sender_email.form = "x500" THEN None ELSE sender_email.domain

\* _build_sender_override_set: the normalised entries of one sender list.
\* The lists of system_buckets.json hold normalised addresses already.
_build_sender_override_set(policy, key) == policy[key]

Hit(b, l) == [bucket |-> b, level |-> l]

Pending == Hit("pending", "pending")

\* Mutant of classify_sender: the hold tests run before the quarantine tests.
classify_sender_HoldFirst(sender_email, sender_domain, policy) ==
    LET email_lower == normalize_sender_for_policy(sender_email)
        domain_lower == sender_domain
        sndr(key) == email_lower /= NoAddr /\ email_lower \in _build_sender_override_set(policy, key)
        dom(key) == domain_lower /= None /\ domain_lower \in policy[key]
    IN  IF sndr("held_senders") THEN Hit("hold", "sender")
        ELSE IF dom("held_domains") THEN Hit("hold", "domain")
        ELSE IF sndr("quarantine_senders") THEN Hit("quarantine", "sender")
        ELSE IF dom("quarantine_domains") THEN Hit("quarantine", "domain")
        ELSE IF sndr("system_notification_senders") THEN Hit("system_notification", "sender")
        ELSE IF dom("system_notification_domains") THEN Hit("system_notification", "domain")
        ELSE IF sndr("transfer_senders") THEN Hit("external_image_request", "sender")
        ELSE IF dom("transfer_domains") THEN Hit("external_image_request", "domain")
        ELSE Hit(None, None)

classify_sender(sender_email, sender_domain, policy) ==
    LET email_lower == normalize_sender_for_policy(sender_email)
        domain_lower == sender_domain
        sndr(key) == email_lower /= NoAddr /\ email_lower \in _build_sender_override_set(policy, key)
        dom(key) == domain_lower /= None /\ domain_lower \in policy[key]
    IN  IF sndr("quarantine_senders") THEN Hit("quarantine", "sender")
        ELSE IF dom("quarantine_domains") THEN Hit("quarantine", "domain")
        ELSE IF sndr("held_senders") THEN Hit("hold", "sender")
        ELSE IF dom("held_domains") THEN Hit("hold", "domain")
        ELSE IF sndr("system_notification_senders") THEN Hit("system_notification", "sender")
        ELSE IF dom("system_notification_domains") THEN Hit("system_notification", "domain")
        ELSE IF sndr("transfer_senders") THEN Hit("external_image_request", "sender")
        ELSE IF dom("transfer_domains") THEN Hit("external_image_request", "domain")
        ELSE Hit(None, None)

get_sender_override_bucket(sender_email, policy) ==
    LET email_lower == normalize_sender_for_policy(sender_email)
    IN  IF email_lower = NoAddr THEN None
        ELSE IF email_lower \in _build_sender_override_set(policy, "quarantine_senders") THEN "quarantine"
        ELSE IF email_lower \in _build_sender_override_set(policy, "held_senders") THEN "hold"
        ELSE IF email_lower \in _build_sender_override_set(policy, "system_notification_senders") THEN "system_notification"
        ELSE IF email_lower \in _build_sender_override_set(policy, "transfer_senders") THEN "external_image_request"
        ELSE None

\* classify_sender_domain reads the legacy aliases always_hold_domains and
\* external_image_request_domains, which process_inbox sets to held_domains and
\* transfer_domains (lines 2545-2546).
classify_sender_domain(domain, policy) ==
    IF domain = None THEN "unknown"
    ELSE IF domain \in policy["quarantine_domains"] THEN "quarantine"
    ELSE IF domain \in policy["held_domains"] THEN "hold"
    ELSE IF domain \in policy["system_notification_domains"] THEN "system_notification"
    ELSE IF domain \in policy["transfer_domains"] THEN "external_image_request"
    ELSE IF domain \in policy["internal_domains"] THEN "internal"
    ELSE "unknown"

ExplicitBuckets == {"quarantine", "hold", "system_notification", "external_image_request"}

\* Mutant of EffectiveBucket: the sender-override safety step (lines 2809-2813) left out.
EffectiveBucket_NoOverrideStep(sender_email, policy) ==
    LET sender_domain == extract_sender_domain(sender_email)
        first == classify_sender(sender_email, sender_domain, policy)
        fb == IF sender_domain /= None THEN classify_sender_domain(sender_domain, policy) ELSE "unknown"
    IN  IF first.bucket = None
        THEN Hit(fb, IF fb \in ExplicitBuckets THEN "domain" ELSE None)
        ELSE first

\* process_inbox lines 2798-2813: the bucket and match level the pipeline acts on.
EffectiveBucket(sender_email, policy) ==
    LET sender_domain == extract_sender_domain(sender_email)
        first == classify_sender(sender_email, sender_domain, policy)
        fb == IF sender_domain /= None THEN classify_sender_domain(sender_domain, policy) ELSE "unknown"
        second == IF first.bucket = None
                  THEN Hit(fb, IF fb \in ExplicitBuckets THEN "domain" ELSE None)
                  ELSE first
        sender_bucket == get_sender_override_bucket(sender_email, policy)
    IN  IF second.level /= "sender" /\ sender_bucket /= None
        THEN Hit(sender_bucket, "sender")
        ELSE second

SenderKeys == {"quarantine_senders", "held_senders", "system_notification_senders", "transfer_senders"}
DomainKeys == {"quarantine_domains", "held_domains", "system_notification_domains", "transfer_domains"}

PolicySets ==
    [ quarantine_senders : SUBSET PolicyAddrs,
      held_senders : SUBSET PolicyAddrs,
      system_notification_senders : SUBSET PolicyAddrs,
      transfer_senders : SUBSET PolicyAddrs,
      quarantine_domains : SUBSET PolicyDomains,
      held_domains : SUBSET PolicyDomains,
      system_notification_domains : SUBSET PolicyDomains,
      transfer_domains : SUBSET PolicyDomains,
      internal_domains : SUBSET PolicyDomains ]

VARIABLES cls_policy, cls_sender, cls_result

clsVars == <<cls_policy, cls_sender, cls_result>>

ClsInit ==
    /\ cls_policy \in PolicySets
    /\ cls_sender \in SenderStrings
    /\ cls_result = Pending

ClsIdle ==
    /\ cls_policy = [k \in SenderKeys \cup DomainKeys \cup {"internal_domains"} |-> {}]
    /\ cls_sender = [form |-> "x500", local |-> "requests", domain |-> "bensonradiology.com.au"]
    /\ cls_result = Pending

\* One message's classification step of process_inbox.
ClassifyMessage ==
    /\ cls_result = Pending
    /\ cls_result' = EffectiveBucket(cls_sender, cls_policy)
    /\ UNCHANGED <<cls_policy, cls_sender>>

\* The next unread message is taken up under the same policy snapshot.
NextMessage ==
    /\ cls_result /= Pending
    /\ cls_sender' \in SenderStrings
    /\ cls_result' = Pending
    /\ UNCHANGED cls_policy

(***************************************************************************)
(* PART 2.  Hot-reload configuration store                                 *)
(***************************************************************************)

MaxEdits == 3
MaxStarts == 2
MaxEvents == 3

CfgNames == {"staff", "system_buckets"}

\* What a config file may hold.  kind: "valid" (parses and passes the schema
\* validator), "schema_invalid" (JSON, rejected by the validator), "bad_json"
\* (text, not JSON), "undecodable" (bytes that are not UTF-8).  Two valid files
\* with the same val differ only in what the parser normalises away (letter case,
\* surrounding blanks, duplicate entries): fmt.
FileContents ==
    { [kind |-> "valid", val |-> "A", fmt |-> "canonical"],
      [kind |-> "valid", val |-> "A", fmt |-> "variant"],
      [kind |-> "valid", val |-> "B", fmt |-> "canonical"],
      [kind |-> "schema_invalid", val |-> None, fmt |-> "canonical"],
      [kind |-> "bad_json", val |-> None, fmt |-> "canonical"],
      [kind |-> "undecodable", val |-> None, fmt |-> "canonical"] }

NoContent == [kind |-> None, val |-> None, fmt |-> None]

\* A file on disk: absent (mtime 0) or present with its modification stamp.
MissingFile == [mtime |-> 0, content |-> NoContent]

\* _file_fingerprint: (st_mtime_ns, st_size), None when the file cannot be stat'ed.
\* Every write gets a fresh modification stamp, which stands for the pair.
_file_fingerprint(file) == IF file = MissingFile THEN 0 ELSE file.mtime

\* parse_fn (_parse_staff_json, _parse_system_buckets_json): the normalised value.
parse_fn(content) == IF content.kind = "valid" THEN content.val ELSE None

\* sha256 of the canonical dump of the parsed value.
Sha(parsed) == <<"sha", parsed>>

\* sha256 of the raw bytes of a rejected file.
RawSha(content) == <<"raw", content.kind, content.val, content.fmt>>

NoSha == <<"none">>

HotInit == [seen_fp |-> 0, seen_sha |-> NoSha, lkg |-> None, lkg_sha |-> NoSha]

Reloaded(st, value, ev) == [state |-> st, value |-> value, event |-> ev]

\* Mutant of _reload_hot_json: a file that fails validation clears last-known-good.
_reload_hot_json_ClearsOnInvalid(state, file, read_ok) ==
    LET fp == _file_fingerprint(file)
        parsed == parse_fn(file.content)
        sha == Sha(parsed)
    IN  IF fp = 0 THEN Reloaded(state, state.lkg, None)
        ELSE IF state.seen_fp = fp THEN Reloaded(state, state.lkg, None)
        ELSE IF ~read_ok
            THEN Reloaded([state EXCEPT !.seen_fp = fp], state.lkg, "CONFIG_INVALID")
        ELSE IF file.content.kind /= "valid"
            THEN Reloaded([state EXCEPT !.seen_fp = fp, !.seen_sha = RawSha(file.content),
                                        !.lkg = None, !.lkg_sha = NoSha],
                          None, "CONFIG_INVALID")
        ELSE IF state.lkg_sha = sha
            THEN Reloaded([state EXCEPT !.seen_fp = fp, !.seen_sha = sha], state.lkg, None)
        ELSE Reloaded([state EXCEPT !.seen_fp = fp, !.seen_sha = sha, !.lkg = parsed, !.lkg_sha = sha],
                      parsed, "CONFIG_CHANGED")

\* Mutant of _reload_hot_json: the fingerprint of a rejected file is not recorded.
_reload_hot_json_ForgetsBadFingerprint(state, file, read_ok) ==
    LET fp == _file_fingerprint(file)
        parsed == parse_fn(file.content)
        sha == Sha(parsed)
    IN  IF fp = 0 THEN Reloaded(state, state.lkg, None)
        ELSE IF state.seen_fp = fp THEN Reloaded(state, state.lkg, None)
        ELSE IF ~read_ok
            THEN Reloaded(state, state.lkg, "CONFIG_INVALID")
        ELSE IF file.content.kind /= "valid"
            THEN Reloaded(state, state.lkg, "CONFIG_INVALID")
        ELSE IF state.lkg_sha = sha
            THEN Reloaded([state EXCEPT !.seen_fp = fp, !.seen_sha = sha], state.lkg, None)
        ELSE Reloaded([state EXCEPT !.seen_fp = fp, !.seen_sha = sha, !.lkg = parsed, !.lkg_sha = sha],
                      parsed, "CONFIG_CHANGED")

\* Mutant of _reload_hot_json: a rewrite with the cached good content is
\* reported as a change.
_reload_hot_json_EventOnSameHash(state, file, read_ok) ==
    LET fp == _file_fingerprint(file)
        parsed == parse_fn(file.content)
        sha == Sha(parsed)
    IN  IF fp = 0 THEN Reloaded(state, state.lkg, None)
        ELSE IF state.seen_fp = fp THEN Reloaded(state, state.lkg, None)
        ELSE IF ~read_ok
            THEN Reloaded([state EXCEPT !.seen_fp = fp], state.lkg, "CONFIG_INVALID")
        ELSE IF file.content.kind \in {"undecodable", "bad_json", "schema_invalid"}
            THEN Reloaded([state EXCEPT !.seen_fp = fp, !.seen_sha = RawSha(file.content)],
                          state.lkg, "CONFIG_INVALID")
        ELSE Reloaded([state EXCEPT !.seen_fp = fp, !.seen_sha = sha, !.lkg = parsed, !.lkg_sha = sha],
                      parsed, "CONFIG_CHANGED")

\* _reload_hot_json for one file: the new cache entry, the value returned and
\* the event emitted.  read_ok: whether open()/read() of the file succeeded.
_reload_hot_json(state, file, read_ok) ==
    LET fp == _file_fingerprint(file)
        parsed == parse_fn(file.content)
        sha == Sha(parsed)
    IN  IF fp = 0 THEN Reloaded(state, state.lkg, None)
        ELSE IF state.seen_fp = fp THEN Reloaded(state, state.lkg, None)
        ELSE IF ~read_ok
            THEN Reloaded([state EXCEPT !.seen_fp = fp], state.lkg, "CONFIG_INVALID")
        ELSE IF file.content.kind \in {"undecodable", "bad_json", "schema_invalid"}
            THEN Reloaded([state EXCEPT !.seen_fp = fp, !.seen_sha = RawSha(file.content)],
                          state.lkg, "CONFIG_INVALID")
        ELSE IF state.lkg_sha = sha
            THEN Reloaded([state EXCEPT !.seen_fp = fp, !.seen_sha = sha], state.lkg, None)
        ELSE Reloaded([state EXCEPT !.seen_fp = fp, !.seen_sha = sha, !.lkg = parsed, !.lkg_sha = sha],
                      parsed, "CONFIG_CHANGED")

VARIABLES
    cfg_file,        \* name -> the file on disk
    cfg_clock,       \* modification stamps handed out so far
    cfg_hot,         \* _hot_config_state: name -> cache entry (in memory)
    cfg_value,       \* name -> value the store returned at the latest tick
    cfg_event,       \* name -> event emitted for it at the latest tick
    cfg_read_ok,     \* name -> FALSE when the latest tick opened the file and could not read it
    cfg_starts,      \* process starts so far
    cfg_invalid_n,   \* name -> CONFIG_INVALID events since the file's fingerprint last changed
    cfg_lkg_before   \* name -> last-known-good when the file's fingerprint last changed

cfgVars == <<cfg_file, cfg_clock, cfg_hot, cfg_value, cfg_event, cfg_read_ok,
             cfg_starts, cfg_invalid_n, cfg_lkg_before>>

CfgInit ==
    /\ cfg_file = [n \in CfgNames |-> MissingFile]
    /\ cfg_clock = 0
    /\ cfg_hot = [n \in CfgNames |-> HotInit]
    /\ cfg_value = [n \in CfgNames |-> None]
    /\ cfg_event = [n \in CfgNames |-> None]
    /\ cfg_read_ok = [n \in CfgNames |-> TRUE]
    /\ cfg_starts = 1
    /\ cfg_invalid_n = [n \in CfgNames |-> 0]
    /\ cfg_lkg_before = [n \in CfgNames |-> None]

CfgIdle ==
    /\ cfg_file = [n \in CfgNames |-> MissingFile]
    /\ cfg_clock = 0
    /\ cfg_hot = [n \in CfgNames |-> HotInit]
    /\ cfg_value = [n \in CfgNames |-> None]
    /\ cfg_event = [n \in CfgNames |-> None]
    /\ cfg_read_ok = [n \in CfgNames |-> TRUE]
    /\ cfg_starts = 1
    /\ cfg_invalid_n = [n \in CfgNames |-> 0]
    /\ cfg_lkg_before = [n \in CfgNames |-> None]

\* The dashboard (or an operator) rewrites a config file.
WriteConfig(n, c) ==
    /\ cfg_clock < MaxEdits
    /\ cfg_clock' = cfg_clock + 1
    /\ cfg_file' = [cfg_file EXCEPT ![n] = [mtime |-> cfg_clock + 1, content |-> c]]
    /\ cfg_invalid_n' = [cfg_invalid_n EXCEPT ![n] = 0]
    /\ cfg_lkg_before' = [cfg_lkg_before EXCEPT ![n] = cfg_hot[n].lkg]
    /\ UNCHANGED <<cfg_hot, cfg_value, cfg_event, cfg_read_ok, cfg_starts>>

\* A config file is removed.
DeleteConfig(n) ==
    /\ cfg_file[n] /= MissingFile
    /\ cfg_file' = [cfg_file EXCEPT ![n] = MissingFile]
    /\ cfg_invalid_n' = [cfg_invalid_n EXCEPT ![n] = 0]
    /\ cfg_lkg_before' = [cfg_lkg_before EXCEPT ![n] = cfg_hot[n].lkg]
    /\ UNCHANGED <<cfg_clock, cfg_hot, cfg_value, cfg_event, cfg_read_ok, cfg_starts>>

\* load_config_files_each_tick at the head of process_inbox: every file is
\* reloaded; readable says which files open() could read at this tick.
load_config_files_each_tick(readable) ==
    LET r(n) == _reload_hot_json(cfg_hot[n], cfg_file[n], readable[n])
    IN  /\ cfg_hot' = [n \in CfgNames |-> r(n).state]
        /\ cfg_value' = [n \in CfgNames |-> r(n).value]
        /\ cfg_event' = [n \in CfgNames |-> r(n).event]
        /\ cfg_read_ok' = [n \in CfgNames |->
                readable[n] \/ _file_fingerprint(cfg_file[n]) \in {0, cfg_hot[n].seen_fp}]
        /\ cfg_invalid_n' = [n \in CfgNames |->
                IF r(n).event = "CONFIG_INVALID" /\ cfg_invalid_n[n] < MaxEvents
                THEN cfg_invalid_n[n] + 1 ELSE cfg_invalid_n[n]]
        /\ UNCHANGED <<cfg_file, cfg_clock, cfg_starts, cfg_lkg_before>>

ConfigTick == \E readable \in [CfgNames -> BOOLEAN] : load_config_files_each_tick(readable)

\* The process is stopped and started again: _hot_config_state is in memory only.
ConfigRestart ==
    /\ cfg_starts < MaxStarts
    /\ cfg_starts' = cfg_starts + 1
    /\ cfg_hot' = [n \in CfgNames |-> HotInit]
    /\ cfg_value' = [n \in CfgNames |-> None]
    /\ cfg_event' = [n \in CfgNames |-> None]
    /\ cfg_invalid_n' = [n \in CfgNames |-> 0]
    /\ cfg_lkg_before' = [n \in CfgNames |-> None]
    /\ UNCHANGED <<cfg_file, cfg_clock, cfg_read_ok>>

(***************************************************************************)
(* PART 3.  Round-robin rotation state                                     *)
(***************************************************************************)

MaxCalls == 4
MaxStartIndex == 2

\* Contents staff.json may have (get_staff_list keeps the file's order).
Rosters == { <<>>, <<"alice", "bob">>, <<"alice", "bob", "carol">> }

RosterState(i, t) == [current_index |-> i, total_processed |-> t]

\* atomic_write_json: the new file content and the result.  replace_ok is FALSE
\* when os.replace raised PermissionError on each of its three attempts (the
\* target is held open by another process) or the temp file could not be written.
atomic_write_json(old, data, replace_ok) ==
    IF replace_ok THEN [file |-> data, ok |-> TRUE] ELSE [file |-> old, ok |-> FALSE]

\* save_roster_state: the result of atomic_write_json is dropped.
save_roster_state(old, state, replace_ok) == atomic_write_json(old, state, replace_ok).file

Next_(person, file) == [person |-> person, file |-> file]

\* get_next_staff: staff is _staff_list_cache, file is roster_state.json.
get_next_staff(staff, file, replace_ok) ==
    IF Len(staff) = 0 THEN Next_(None, file)
    ELSE LET idx == file.current_index
             person == staff[(idx % Len(staff)) + 1]
             state == RosterState(idx + 1, file.total_processed + 1)
         IN  Next_(person, save_roster_state(file, state, replace_ok))

VARIABLES
    rs_file,         \* roster_state.json
    rs_staff_file,   \* staff.json: the active roster on disk
    rs_cache,        \* _staff_list_cache of the running tick
    rs_in_tick,      \* whether process_inbox is running
    rs_ncalls,       \* get_next_staff calls made so far
    rs_last,         \* latest call: person returned, file before and after
    rs_run,          \* calls made since the roster last changed: <<person, index persisted before>>
    rs_roster        \* the roster those calls were made with

rsVars == <<rs_file, rs_staff_file, rs_cache, rs_in_tick, rs_ncalls, rs_last, rs_run, rs_roster>>

NoCall == [person |-> "-", before |-> RosterState(0, 0), after |-> RosterState(0, 0)]

RsInit ==
    /\ rs_file \in {RosterState(i, i) : i \in 0..MaxStartIndex}
    /\ rs_staff_file \in Rosters
    /\ rs_cache = <<>>
    /\ rs_in_tick = FALSE
    /\ rs_ncalls = 0
    /\ rs_last = NoCall
    /\ rs_run = <<>>
    /\ rs_roster = <<>>

RsIdle ==
    /\ rs_file = RosterState(0, 0)
    /\ rs_staff_file = <<>>
    /\ rs_cache = <<>>
    /\ rs_in_tick = FALSE
    /\ rs_ncalls = 0
    /\ rs_last = NoCall
    /\ rs_run = <<>>
    /\ rs_roster = <<>>

\* process_inbox lines 2768-2770: the tick reads the roster once.
RosterTickStart ==
    /\ ~rs_in_tick
    /\ rs_in_tick' = TRUE
    /\ rs_cache' = rs_staff_file
    /\ rs_roster' = rs_staff_file
    /\ rs_run' = IF rs_staff_file = rs_roster THEN rs_run ELSE <<>>
    /\ UNCHANGED <<rs_file, rs_staff_file, rs_ncalls, rs_last>>

\* One assignment call inside the tick.
GetNextStaff(replace_ok) ==
    /\ rs_in_tick
    /\ rs_ncalls < MaxCalls
    /\ LET r == get_next_staff(rs_cache, rs_file, replace_ok)
       IN  /\ rs_file' = r.file
           /\ rs_last' = [person |-> r.person, before |-> rs_file, after |-> r.file]
           /\ rs_run' = IF r.person = None THEN rs_run
                        ELSE LET all == Append(rs_run, <<r.person, rs_file.current_index>>)
                             IN  IF Len(all) > Len(rs_cache) THEN Tail(all) ELSE all
    /\ rs_ncalls' = rs_ncalls + 1
    /\ UNCHANGED <<rs_staff_file, rs_cache, rs_in_tick, rs_roster>>

\* The tick ends (finally block), or the process is killed and started again:
\* the cache is dropped, the files stay.
RosterTickEndOrRestart ==
    /\ rs_in_tick
    /\ rs_in_tick' = FALSE
    /\ rs_cache' = <<>>
    /\ UNCHANGED <<rs_file, rs_staff_file, rs_ncalls, rs_last, rs_run, rs_roster>>

\* staff.json is edited.
EditStaff(r) ==
    /\ r /= rs_staff_file
    /\ rs_staff_file' = r
    /\ UNCHANGED <<rs_file, rs_cache, rs_in_tick, rs_ncalls, rs_last, rs_run, rs_roster>>

(***************************************************************************)
(* PART 4.  The per-tick pipeline: process_inbox                           *)
(***************************************************************************)

MaxTicks == 3
MaxFaults == 2

Msgs == {1, 2}
Keys == {"k1", "k2"}
JiraKey(k) == IF k = "k1" THEN "k1::JIRA_FOLLOWUP" ELSE "k2::JIRA_FOLLOWUP"
LedgerKeys == Keys \cup {JiraKey(k) : k \in Keys}

\* What a message is, which fixes the branch of process_inbox it takes:
\*   transfer          sender in a transfer (external image request) domain
\*   hold_bucket       sender in a held domain
\*   quarantine        sender in a quarantine domain or sender list
\*   hib               HIB notification with a 16110 code, sender in a listed domain
\*   hib_noise         mail of the configured HIB noise sender (hib_noise_rule), 16110 code
\*   jira              JIRA comment mail, sender in a listed domain
\*   internal_other    no explicit bucket, domain in internal_domains, not @sa.gov.au
\*   internal_nonstaff no explicit bucket, @sa.gov.au, not in the staff list
\*   staff_completion  no explicit bucket, staff sender, [COMPLETED] subject
\*   unknown           no explicit bucket, domain not known
\*   transfer_sender   sender in transfer_senders, domain in no policy list
\*   staff_completion_jira  staff sender, [COMPLETED] subject, body of a JIRA comment mail
\*   staff_reply_cc    staff sender @sa.gov.au, "RE:" subject, completion-CC address, no marker
\*   sami_completion   no explicit bucket, support-staff sender on an internal domain
\*                     other than sa.gov.au
\*   staff_completion_noconv  a staff_completion mail whose ConversationID is empty
\*   system_notification  sender in a system_notification domain
\*   notification_jira    JIRA comment mail, sender in a system_notification domain
\* The senders of hib, jira and staff_completion_jira mails are in a transfer domain
\* resp. on the staff list, so their domains are known.
ExplicitKinds == {"transfer", "hold_bucket", "quarantine", "hib", "hib_noise", "jira",
                  "transfer_sender", "system_notification", "notification_jira"}
DefaultKinds == {"internal_other", "internal_nonstaff", "staff_completion", "unknown",
                 "staff_completion_jira", "staff_reply_cc", "sami_completion",
                 "staff_completion_noconv"}
Kinds == ExplicitKinds \cup DefaultKinds

\* domain_policy.json as load_domain_policy accepts it: every list field is a
\* list, its elements are not checked.  "internal_domains": that list holds a
\* non-string element; "sami_support_staff": that list does.
PolicyShapes == {"ok", "internal_domains", "sami_support_staff"}

Unbound == "unbound"
NoEntry == [assigned_to |-> None, ts |-> <<0, 0>>, conversation_id |-> FALSE, completed_at |-> 0,
            completed_by |-> None, completion_source |-> None]
NewEntry(who, t, m, conv) == [assigned_to |-> who, ts |-> <<t, m>>, conversation_id |-> conv,
                              completed_at |-> 0, completed_by |-> None, completion_source |-> None]
EmptyLedger == [k \in LedgerKeys |-> NoEntry]

VARIABLES
    mail,              \* message -> [kind, key, loc, unread]
    policy_shape,      \* shape of domain_policy.json
    ledger_file,       \* processed_ledger.json
    poison_file,       \* poison_counts.json: key -> count
    pc,                \* position of process_inbox: "idle", "next" (loop head) or a step
    todo,              \* msgs still to visit in this tick
    processed_ledger,  \* the tick's in-memory ledger
    message_key,       \* loop local, Unbound until first assigned in this tick
    assignee,          \* loop local
    tick,              \* ticks started
    faults,            \* crashes, write failures and transport errors injected so far
    sent,              \* message -> Send calls issued for it
    suppressed,        \* message -> sends for it that safe mode suppressed
    suppress_log,      \* message -> the log records written for its suppressed sends
    assigned_rows,     \* key -> stats rows with event_type ASSIGNED and that msg_key
    ledger_gains,      \* key -> times a fresh entry for it was written to ledger_file
    enumerated,        \* msgs of the latest tick
    visited,           \* msgs whose loop body was entered in the latest tick
    raised,            \* msgs whose processing raised in the latest tick
    tick_saved,        \* ledger keys written to disk in the latest tick
    fail_streak,       \* message -> [n, tick]: consecutive ticks on which it raised
    env,               \* the process environment: live flag, inbox name, override flags
    safe_mode_cache,   \* _safe_mode_cache: <<>> (None) outside a tick, else <<is_safe>>
    ledger_present,    \* processed_ledger.json exists
    wrong_rows,        \* message -> WRONG_MAILBOX stats rows appended for it
    outlook_app        \* local of process_inbox, Unbound until line 3376 assigns it

pipeAux == <<env, safe_mode_cache, ledger_present, wrong_rows, outlook_app>>

safeLog == <<suppressed, suppress_log>>

pipeVars == <<mail, policy_shape, ledger_file, poison_file, pc, todo, processed_ledger,
              message_key, assignee, tick, faults, sent, safeLog, assigned_rows, ledger_gains,
              enumerated, visited, raised, tick_saved, fail_streak, pipeAux>>

\* store_ok: check_msg_mailbox_store finds the message in the expected store.
\* forward_ok: msg.Forward() and the resolving of its recipients work for
\* the message.
Message(kind, key) == [kind |-> kind, key |-> key, loc |-> "inbox", unread |-> TRUE,
                       store_ok |-> TRUE, forward_ok |-> TRUE]

\* TRANSFER_BOT_LIVE, "test" in the inbox folder name, TRANSFER_BOT_ALLOW_TEST_FOLDER,
\* TRANSFER_BOT_LIVE_TEST_OK.
Envs == [live : BOOLEAN, test_inbox : BOOLEAN, allow_test : BOOLEAN, legacy_ok : BOOLEAN]

LiveEnv == [live |-> TRUE, test_inbox |-> FALSE, allow_test |-> FALSE, legacy_ok |-> FALSE]

\* Mutant of determine_safe_mode: the test-folder rule is left out.
determine_safe_mode_LiveOnly(e) == ~e.live

\* determine_safe_mode: is_safe.
determine_safe_mode(e) ==
    IF ~e.live THEN TRUE
    ELSE IF e.test_inbox THEN ~(e.allow_test \/ e.legacy_ok)
    ELSE FALSE

\* is_safe_mode(): the cached value inside a tick.
is_safe_mode == IF safe_mode_cache /= <<>> THEN safe_mode_cache[1] ELSE determine_safe_mode(env)

\* The pipeline state that is the same in every start state.
PipeStart ==
    /\ ledger_file = EmptyLedger
    /\ poison_file = [k \in Keys |-> 0]
    /\ pc = "idle"
    /\ todo = <<>>
    /\ processed_ledger = EmptyLedger
    /\ message_key = Unbound
    /\ assignee = None
    /\ tick = 0
    /\ sent = [m \in Msgs |-> 0]
    /\ suppressed = [m \in Msgs |-> 0]
    /\ suppress_log = [m \in Msgs |-> <<>>]
    /\ assigned_rows = [k \in Keys |-> 0]
    /\ ledger_gains = [k \in Keys |-> 0]
    /\ enumerated = {}
    /\ visited = {}
    /\ raised = {}
    /\ tick_saved = {}
    /\ fail_streak = [m \in Msgs |-> [n |-> 0, tick |-> 0]]
    /\ safe_mode_cache = <<>>
    /\ wrong_rows = [m \in Msgs |-> 0]
    /\ outlook_app = Unbound

PipeInit ==
    /\ mail \in { [m \in Msgs |-> IF m = 1 THEN Message(k1, "k1") ELSE Message(k2, key2)] :
                    k1 \in Kinds, k2 \in Kinds, key2 \in Keys }
    /\ mail[1].kind /= mail[2].kind => mail[2].key = "k2"
    /\ policy_shape \in PolicyShapes
    /\ faults = 0
    /\ env = LiveEnv
    /\ ledger_present = TRUE
    /\ PipeStart

PipeIdle ==
    /\ mail = [m \in Msgs |-> Message("quarantine", "k1")]
    /\ policy_shape = "ok"
    /\ faults = 0
    /\ env = LiveEnv
    /\ ledger_present = TRUE
    /\ PipeStart

\* The roster files as the pipeline starts with them.
RsPipeInit ==
    /\ rs_file = RosterState(0, 0)
    /\ rs_staff_file = <<"alice", "bob">>
    /\ rs_cache = <<>>
    /\ rs_in_tick = FALSE
    /\ rs_ncalls = 0
    /\ rs_last = NoCall
    /\ rs_run = <<>>
    /\ rs_roster = <<>>

PoisonThreshold == 3
StaffAddrs == {"alice", "bob", "carol"}

rsAux == <<rs_staff_file, rs_in_tick, rs_ncalls, rs_last, rs_run, rs_roster>>

\* An injected failure (ok = FALSE) is taken from the fault budget.
Inject(ok) ==
    /\ ok \/ faults < MaxFaults
    /\ faults' = IF ok THEN faults ELSE faults + 1

SetMail(m, loc, unread) == mail' = [mail EXCEPT ![m].loc = loc, ![m].unread = unread]

envAux == <<env, safe_mode_cache, ledger_present, outlook_app>>

\* append_stats(..., "WRONG_MAILBOX", ...) for message m.
WrongMailbox(m) == wrong_rows' = [wrong_rows EXCEPT ![m] = @ + 1]

\* "is_safe, _ = is_safe_mode(); if not is_safe: x.Send()" for a mail about message m.
SendUnlessSafe(m) == sent' = IF is_safe_mode THEN sent ELSE [sent EXCEPT ![m] = @ + 1]

\* determine_safe_mode: reason, when is_safe.
safe_reason == IF ~env.live THEN "env_missing" ELSE "test_folder"

\* Line 3723 (staff forward) and line 3111 (JIRA follow-up):
\* log(f"SAFE_MODE_SUPPRESS_SEND action=... reason={safe_reason}").
LogSuppressSend == <<"SAFE_MODE_SUPPRESS_SEND", safe_reason>>

\* Line 1854: log("MANAGER_HOLD_NOTIFY_SUPPRESSED_SAFE_MODE").
LogHoldNotifySuppressed == <<"MANAGER_HOLD_NOTIFY_SUPPRESSED_SAFE_MODE">>

\* Lines 2954-2956, 2909-2911 and 3011-3013: "if not is_safe: fwd.Send()" with no
\* else branch: nothing is logged.
NoLog == <<>>

\* The send site of message m under safe mode: the Send is skipped and the
\* site's log call, if it has one, writes its record.
NoteSuppressed(m, record) ==
    /\ suppressed' = IF is_safe_mode THEN [suppressed EXCEPT ![m] = @ + 1] ELSE suppressed
    /\ suppress_log' = IF is_safe_mode /\ record /= NoLog
                       THEN [suppress_log EXCEPT ![m] = Append(@, record)]
                       ELSE suppress_log

\* "continue": on to the next message of the tick.
Continue == pc' = "next" /\ todo' = Tail(todo)

\* save_processed_ledger(processed_ledger) with the ledger the step has just built.
save_processed_ledger(ok) ==
    /\ ledger_file' = atomic_write_json(ledger_file, processed_ledger', ok).file
    /\ ledger_gains' = [k \in Keys |->
            IF ok /\ processed_ledger'[k].ts /= ledger_file[k].ts
            THEN ledger_gains[k] + 1 ELSE ledger_gains[k]]
    /\ tick_saved' = IF ok THEN tick_saved \cup {k \in LedgerKeys : processed_ledger'[k] /= NoEntry}
                     ELSE tick_saved

\* Lines 3751-3779: the per-message except block, run for message m.  It reads
\* the loop locals subject and message_key: when no message of this tick has
\* assigned them yet the read raises UnboundLocalError, which leaves the for
\* loop for the outer except at line 3781; otherwise they hold what the latest
\* message that got that far left in them.
ExceptHandler(m) ==
    /\ raised' = raised \cup {m}
    /\ fail_streak' = [fail_streak EXCEPT ![m] =
            [n |-> IF @.n > 0 /\ @.tick = tick - 1 THEN @.n + 1 ELSE 1, tick |-> tick]]
    /\ IF message_key = Unbound
       THEN /\ pc' = "next"
            /\ todo' = <<>>
            /\ UNCHANGED <<poison_file, mail, wrong_rows>>
       ELSE LET poison_count == poison_file[message_key] + 1
            IN  /\ poison_file' = [poison_file EXCEPT ![message_key] = poison_count]
                /\ IF poison_count >= PoisonThreshold
                   THEN IF mail[m].store_ok
                        THEN SetMail(m, "quarantine", FALSE) /\ UNCHANGED wrong_rows
                        ELSE SetMail(m, mail[m].loc, FALSE) /\ WrongMailbox(m)
                   ELSE UNCHANGED <<mail, wrong_rows>>
                /\ Continue

Ascending(S) == IF S = {} THEN <<>> ELSE IF S = {1, 2} THEN <<1, 2>> ELSE <<CHOOSE m \in S : TRUE>>

\* ensure_processed_ledger_exists: an existing file is left alone; a missing one
\* is created as {} by atomic_write_json, and only a failed write returns False.
ensure_processed_ledger_exists(present, file, replace_ok) ==
    IF present THEN [ok |-> TRUE, present |-> TRUE, file |-> file]
    ELSE LET w == atomic_write_json(file, EmptyLedger, replace_ok)
         IN  [ok |-> w.ok, present |-> w.ok, file |-> w.file]

\* process_inbox up to the loop (lines 2565-2567 and 2757-2779): the safe-mode
\* cache, the unread messages, the roster, the ledger.  ok = FALSE: the write
\* that creates a missing ledger fails and the tick is skipped.
TickStart(ok) ==
    /\ pc = "idle"
    /\ tick < MaxTicks
    /\ tick' = tick + 1
    /\ LET msgs == {m \in Msgs : mail[m].loc = "inbox" /\ mail[m].unread}
           e == ensure_processed_ledger_exists(ledger_present, ledger_file, ok)
       IN  /\ ok \/ (msgs /= {} /\ ~ledger_present)
           /\ Inject(ok)
           /\ enumerated' = msgs
           /\ IF msgs = {}
              THEN /\ todo' = <<>>
                   /\ pc' = "idle"
                   /\ processed_ledger' = EmptyLedger
                   /\ rs_cache' = <<>>
                   /\ safe_mode_cache' = <<>>
                   /\ UNCHANGED <<ledger_present, ledger_file>>
              ELSE /\ ledger_present' = e.present
                   /\ ledger_file' = e.file
                   /\ todo' = IF e.ok THEN Ascending(msgs) ELSE <<>>
                   /\ pc' = IF e.ok THEN "next" ELSE "idle"
                   /\ processed_ledger' = IF e.ok THEN e.file ELSE EmptyLedger
                   /\ rs_cache' = IF e.ok THEN rs_staff_file ELSE <<>>
                   /\ safe_mode_cache' = IF e.ok THEN <<determine_safe_mode(env)>> ELSE <<>>
    /\ visited' = {}
    /\ raised' = {}
    /\ tick_saved' = {}
    /\ UNCHANGED <<mail, policy_shape, poison_file, message_key, assignee,
                   sent, safeLog, assigned_rows, ledger_gains, fail_streak, rs_file, rsAux, env, wrong_rows,
                   outlook_app>>

\* The loop is over (or was left by the outer except): the finally block.
TickEnd ==
    /\ pc = "next"
    /\ todo = <<>>
    /\ pc' = "idle"
    /\ processed_ledger' = EmptyLedger
    /\ message_key' = Unbound
    /\ assignee' = None
    /\ rs_cache' = <<>>
    /\ safe_mode_cache' = <<>>
    /\ outlook_app' = Unbound
    /\ UNCHANGED <<mail, policy_shape, ledger_file, poison_file, todo, tick, faults, sent, safeLog,
                   assigned_rows, ledger_gains, enumerated, visited, raised, tick_saved,
                   fail_streak, rs_file, rsAux, env, ledger_present, wrong_rows>>

\* The process is killed between two steps of a tick and started again: only
\* the files and the mailbox survive.
Crash ==
    /\ pc /= "idle"
    /\ faults < MaxFaults
    /\ faults' = faults + 1
    /\ pc' = "idle"
    /\ todo' = <<>>
    /\ processed_ledger' = EmptyLedger
    /\ message_key' = Unbound
    /\ assignee' = None
    /\ rs_cache' = <<>>
    /\ enumerated' = {}
    /\ visited' = {}
    /\ raised' = {}
    /\ tick_saved' = {}
    /\ safe_mode_cache' = <<>>
    /\ outlook_app' = Unbound
    /\ UNCHANGED <<mail, policy_shape, ledger_file, poison_file, tick, sent, safeLog, assigned_rows,
                   ledger_gains, fail_streak, rs_file, rsAux, env, ledger_present, wrong_rows>>

\* Where a message that is new to the ledger goes first: the tests of lines
\* 2879 (HIB), 2943 (internal non-staff), 3040 (JIRA comment mail), 3163
\* (staff completion) and 3340 (domain in no policy list) come, in this order,
\* before the bucket-driven routing of line 3422.
FirstStep(kind) ==
    CASE kind \in {"transfer", "internal_other", "hold_bucket", "sami_completion",
                    "system_notification"} -> "route"
      [] kind \in {"unknown", "transfer_sender"} -> "hold_ledger"
      [] kind = "internal_nonstaff" -> "review_send"
      [] kind \in {"hib", "hib_noise"} -> "hib_unread"
      [] kind \in {"jira", "staff_completion_jira", "notification_jira"} -> "jira_unread"
      [] kind \in {"staff_completion", "staff_completion_noconv"} -> "completion"
      [] kind = "staff_reply_cc" -> "next"

\* Mutant of AlreadyProcessed: the LEDGER_SKIP test never fires.
AlreadyProcessed_Never(ledger, key) == FALSE

\* Line 2874: message_key in processed_ledger.
AlreadyProcessed(ledger, key) == ledger[key] /= NoEntry

\* Lines 2782-2877: classification, the quarantine bucket, the message identity
\* and the ledger test, for the next message of the tick.
BeginMessage ==
    /\ pc = "next"
    /\ todo /= <<>>
    /\ LET m == Head(todo)
           kind == mail[m].kind
       IN  /\ visited' = visited \cup {m}
           /\ IF policy_shape = "internal_domains" /\ kind \in DefaultKinds
              THEN /\ ExceptHandler(m)
                   /\ UNCHANGED message_key
              ELSE IF kind = "quarantine"
              THEN /\ IF mail[m].store_ok THEN SetMail(m, "quarantine", FALSE) ELSE UNCHANGED mail
                   /\ Continue
                   /\ UNCHANGED <<message_key, poison_file, raised, fail_streak, wrong_rows>>
              ELSE /\ message_key' = mail[m].key
                   /\ IF AlreadyProcessed(processed_ledger, mail[m].key) \/ kind = "staff_reply_cc"
                      THEN Continue
                      ELSE pc' = FirstStep(kind) /\ UNCHANGED todo
                   /\ UNCHANGED <<mail, poison_file, raised, fail_streak, wrong_rows>>
    /\ UNCHANGED <<policy_shape, ledger_file, processed_ledger, assignee, tick, faults, sent, safeLog,
                   assigned_rows, ledger_gains, enumerated, tick_saved, rs_file, rs_cache, rsAux, envAux>>

\* Lines 3410-3477: the routing decision.  A transfer or internal sender takes
\* the next staff member; a held domain goes to the manager ("hold"); a support
\* staff sender on an internal domain is a completion.
\* is_sami_support_staff (line 3439) raises on a non-string list element.
Route(ok) ==
    /\ pc = "route"
    /\ LET m == Head(todo)
           kind == mail[m].kind
       IN  IF kind \in {"internal_other", "sami_completion"} /\ policy_shape = "sami_support_staff"
           THEN /\ ok
                /\ ExceptHandler(m)
                /\ UNCHANGED <<assignee, rs_file, faults>>
           ELSE IF kind = "hold_bucket"
           THEN /\ ok
                /\ assignee' = "hold"
                /\ pc' = "ledger"
                /\ UNCHANGED <<rs_file, faults, todo, mail, poison_file, raised, fail_streak, wrong_rows>>
           ELSE IF kind = "system_notification"
           THEN /\ ok
                /\ assignee' = "system_notification"
                /\ pc' = "ledger"
                /\ UNCHANGED <<rs_file, faults, todo, mail, poison_file, raised, fail_streak, wrong_rows>>
           ELSE IF kind = "sami_completion"
           THEN /\ ok
                /\ assignee' = "completed"
                /\ pc' = "sami_unread"
                /\ UNCHANGED <<rs_file, faults, todo, mail, poison_file, raised, fail_streak, wrong_rows>>
           ELSE LET r == get_next_staff(rs_cache, rs_file, ok)
                IN  /\ ok \/ Len(rs_cache) > 0
                    /\ Inject(ok)
                    /\ rs_file' = r.file
                    /\ assignee' = r.person
                    /\ IF r.person = None THEN Continue ELSE pc' = "ledger" /\ UNCHANGED todo
                    /\ UNCHANGED <<mail, poison_file, raised, fail_streak, wrong_rows>>
    /\ UNCHANGED <<policy_shape, ledger_file, processed_ledger, message_key, tick, sent, safeLog,
                   assigned_rows, ledger_gains, enumerated, visited, tick_saved, rs_cache, rsAux, envAux>>

\* Mutant of LedgerWrite: a failed save takes the entry out of the tick's ledger again.
LedgerWrite_ForgetsOnFailure(ok) ==
    /\ pc = "ledger"
    /\ Inject(ok)
    /\ processed_ledger' = IF ok
                           THEN [processed_ledger EXCEPT
                                    ![message_key] = NewEntry(assignee, tick, Head(todo), TRUE)]
                           ELSE processed_ledger
    /\ save_processed_ledger(ok)
    /\ IF ok
       THEN /\ pc' = IF mail[Head(todo)].kind = "system_notification" THEN "silent_unread"
                     ELSE "forward"
            /\ UNCHANGED todo
       ELSE Continue
    /\ UNCHANGED <<mail, policy_shape, poison_file, message_key, assignee, tick, sent, safeLog,
                   assigned_rows, enumerated, visited, raised, fail_streak, rs_file, rs_cache, rsAux, pipeAux>>

\* Lines 3525-3545: the ledger entry is written and saved before anything is sent.
LedgerWrite(ok) ==
    /\ pc = "ledger"
    /\ Inject(ok)
    /\ processed_ledger' = [processed_ledger EXCEPT
            ![message_key] = NewEntry(assignee, tick, Head(todo), TRUE)]
    /\ save_processed_ledger(ok)
    /\ IF ok
       THEN /\ pc' = IF mail[Head(todo)].kind = "system_notification" THEN "silent_unread"
                     ELSE "forward"
            /\ UNCHANGED todo
       ELSE Continue
    /\ UNCHANGED <<mail, policy_shape, poison_file, message_key, assignee, tick, sent, safeLog,
                   assigned_rows, enumerated, visited, raised, fail_streak, rs_file, rs_cache, rsAux, pipeAux>>

\* Lines 3547-3554: a system notification is not forwarded: the stats row
\* (no ASSIGNED event, the assignee is no staff address), msg.UnRead = False.
SilentMarkRead ==
    /\ pc = "silent_unread"
    /\ SetMail(Head(todo), "inbox", FALSE)
    /\ pc' = "silent_move"
    /\ UNCHANGED <<policy_shape, ledger_file, poison_file, todo, processed_ledger, message_key,
                   assignee, tick, faults, sent, safeLog, assigned_rows, ledger_gains, enumerated, visited,
                   raised, tick_saved, fail_streak, rs_file, rs_cache, rsAux, pipeAux>>

\* Lines 3555-3565: the store guard, then the move to the system
\* notification folder.
SilentMove ==
    /\ pc = "silent_move"
    /\ IF mail[Head(todo)].store_ok
       THEN SetMail(Head(todo), "system_notification", FALSE) /\ UNCHANGED wrong_rows
       ELSE WrongMailbox(Head(todo)) /\ UNCHANGED mail
    /\ Continue
    /\ UNCHANGED <<policy_shape, ledger_file, poison_file, processed_ledger, message_key, assignee,
                   tick, faults, sent, safeLog, assigned_rows, ledger_gains, enumerated, visited, raised,
                   tick_saved, fail_streak, rs_file, rs_cache, rsAux, envAux>>

\* Lines 3567-3725: msg.Forward(), recipients, the store guard, fwd.Send()
\* unless safe mode is on.  ok = FALSE: the transport raises before the mail is sent.
ForwardAndSend(ok) ==
    /\ pc = "forward"
    /\ Inject(ok)
    /\ IF ok
       THEN /\ IF mail[Head(todo)].store_ok
               THEN /\ SendUnlessSafe(Head(todo))
                    /\ NoteSuppressed(Head(todo), LogSuppressSend)
                    /\ UNCHANGED wrong_rows
               ELSE WrongMailbox(Head(todo)) /\ UNCHANGED <<sent, safeLog>>
            /\ pc' = "stats"
            /\ UNCHANGED <<todo, mail, poison_file, raised, fail_streak>>
       ELSE /\ ExceptHandler(Head(todo))
            /\ UNCHANGED <<sent, safeLog>>
    /\ UNCHANGED <<policy_shape, ledger_file, processed_ledger, message_key, assignee, tick,
                   assigned_rows, ledger_gains, enumerated, visited, tick_saved, rs_file, rs_cache, rsAux, envAux>>

\* Mutant of AppendAssignedStats: no ASSIGNED row while safe mode is on.
AppendAssignedStats_LiveOnly ==
    /\ pc = "stats"
    /\ assigned_rows' = IF assignee \in StaffAddrs /\ ~is_safe_mode
                        THEN [assigned_rows EXCEPT ![message_key] = @ + 1]
                        ELSE assigned_rows
    /\ pc' = "unread"
    /\ UNCHANGED <<mail, policy_shape, ledger_file, poison_file, todo, processed_ledger, message_key,
                   assignee, tick, faults, sent, safeLog, ledger_gains, enumerated, visited, raised,
                   tick_saved, fail_streak, rs_file, rs_cache, rsAux, pipeAux>>

\* Lines 3735-3741: the stats row; event_type is ASSIGNED when the assignee is a
\* staff address.
AppendAssignedStats ==
    /\ pc = "stats"
    /\ assigned_rows' = IF assignee \in StaffAddrs
                        THEN [assigned_rows EXCEPT ![message_key] = @ + 1]
                        ELSE assigned_rows
    /\ pc' = "unread"
    /\ UNCHANGED <<mail, policy_shape, ledger_file, poison_file, todo, processed_ledger, message_key,
                   assignee, tick, faults, sent, safeLog, ledger_gains, enumerated, visited, raised,
                   tick_saved, fail_streak, rs_file, rs_cache, rsAux, pipeAux>>

\* Line 3742: msg.UnRead = False.
MarkRead ==
    /\ pc = "unread"
    /\ SetMail(Head(todo), "inbox", FALSE)
    /\ pc' = "move"
    /\ UNCHANGED <<policy_shape, ledger_file, poison_file, todo, processed_ledger, message_key,
                   assignee, tick, faults, sent, safeLog, assigned_rows, ledger_gains, enumerated, visited,
                   raised, tick_saved, fail_streak, rs_file, rs_cache, rsAux, pipeAux>>

\* Lines 3743-3749: the store guard, then msg.Move(processed).  ok = FALSE: the move raises.
MoveProcessed(ok) ==
    /\ pc = "move"
    /\ Inject(ok)
    /\ IF ~mail[Head(todo)].store_ok
       THEN /\ ok
            /\ WrongMailbox(Head(todo))
            /\ Continue
            /\ UNCHANGED <<mail, poison_file, raised, fail_streak>>
       ELSE IF ok
       THEN /\ SetMail(Head(todo), "processed", FALSE)
            /\ Continue
            /\ UNCHANGED <<poison_file, raised, fail_streak, wrong_rows>>
       ELSE ExceptHandler(Head(todo))
    /\ UNCHANGED <<policy_shape, ledger_file, processed_ledger, message_key, assignee, tick, sent, safeLog,
                   assigned_rows, ledger_gains, enumerated, visited, tick_saved, rs_file, rs_cache, rsAux, envAux>>

\* Lines 2942-2956: an internal sender who is not staff: forward to the manager
\* for review.  The Send comes first.  A message of another store is left as
\* it is (line 2947).  When msg.Forward() or the resolving of the recipients
\* raises, the handler of line 2970 logs the error and line 2972 goes on to
\* the next message.
ReviewSend ==
    /\ pc = "review_send"
    /\ IF mail[Head(todo)].store_ok /\ mail[Head(todo)].forward_ok
       THEN /\ SendUnlessSafe(Head(todo))
            /\ NoteSuppressed(Head(todo), NoLog)
            /\ pc' = "review_unread"
            /\ UNCHANGED todo
       ELSE Continue /\ UNCHANGED <<sent, safeLog>>
    /\ UNCHANGED <<mail, policy_shape, ledger_file, poison_file, processed_ledger,
                   message_key, assignee, tick, faults, assigned_rows, ledger_gains, enumerated,
                   visited, raised, tick_saved, fail_streak, rs_file, rs_cache, rsAux, pipeAux>>

\* Line 2957: msg.UnRead = False.
ReviewMarkRead ==
    /\ pc = "review_unread"
    /\ SetMail(Head(todo), "inbox", FALSE)
    /\ pc' = "review_move"
    /\ UNCHANGED <<policy_shape, ledger_file, poison_file, todo, processed_ledger, message_key,
                   assignee, tick, faults, sent, safeLog, assigned_rows, ledger_gains, enumerated, visited,
                   raised, tick_saved, fail_streak, rs_file, rs_cache, rsAux, pipeAux>>

\* Line 2958: msg.Move(processed); an error is caught at line 2970.
ReviewMove(ok) ==
    /\ pc = "review_move"
    /\ Inject(ok)
    /\ IF ok
       THEN SetMail(Head(todo), "processed", FALSE) /\ pc' = "review_ledger" /\ UNCHANGED todo
       ELSE Continue /\ UNCHANGED mail
    /\ UNCHANGED <<policy_shape, ledger_file, poison_file, processed_ledger, message_key, assignee,
                   tick, sent, safeLog, assigned_rows, ledger_gains, enumerated, visited, raised,
                   tick_saved, fail_streak, rs_file, rs_cache, rsAux, pipeAux>>

\* Lines 2959-2969: the ledger entry, written last; the save result is not read.
ReviewLedger(ok) ==
    /\ pc = "review_ledger"
    /\ Inject(ok)
    /\ processed_ledger' = [processed_ledger EXCEPT
            ![message_key] = NewEntry("manager_review", tick, Head(todo), FALSE)]
    /\ save_processed_ledger(ok)
    /\ Continue
    /\ UNCHANGED <<mail, policy_shape, poison_file, message_key, assignee, tick, sent, safeLog,
                   assigned_rows, enumerated, visited, raised, fail_streak, rs_file, rs_cache,
                   rsAux, pipeAux>>

\* Lines 3338-3361: an unknown domain is held: ledger entry first.
HoldLedger(ok) ==
    /\ pc = "hold_ledger"
    /\ Inject(ok)
    /\ processed_ledger' = [processed_ledger EXCEPT
            ![message_key] = NewEntry("hold", tick, Head(todo), TRUE)]
    /\ save_processed_ledger(ok)
    /\ IF ok THEN pc' = "hold_unread" /\ UNCHANGED todo ELSE Continue
    /\ UNCHANGED <<mail, policy_shape, poison_file, message_key, assignee, tick, sent, safeLog,
                   assigned_rows, enumerated, visited, raised, fail_streak, rs_file, rs_cache,
                   rsAux, pipeAux>>

\* Line 3363: msg.UnRead = False.
HoldMarkRead ==
    /\ pc = "hold_unread"
    /\ SetMail(Head(todo), "inbox", FALSE)
    /\ pc' = "hold_move"
    /\ UNCHANGED <<policy_shape, ledger_file, poison_file, todo, processed_ledger, message_key,
                   assignee, tick, faults, sent, safeLog, assigned_rows, ledger_gains, enumerated, visited,
                   raised, tick_saved, fail_streak, rs_file, rs_cache, rsAux, pipeAux>>

\* Lines 3365-3374: the store guard, then msg.Move(quarantine); an error ends
\* this message.
HoldMove(ok) ==
    /\ pc = "hold_move"
    /\ Inject(ok)
    /\ IF ~mail[Head(todo)].store_ok
       THEN ok /\ WrongMailbox(Head(todo)) /\ Continue /\ UNCHANGED mail
       ELSE IF ok
       THEN SetMail(Head(todo), "quarantine", FALSE) /\ pc' = "hold_notify"
            /\ UNCHANGED <<todo, wrong_rows>>
       ELSE Continue /\ UNCHANGED <<mail, wrong_rows>>
    /\ UNCHANGED <<policy_shape, ledger_file, poison_file, processed_ledger, message_key, assignee,
                   tick, sent, safeLog, assigned_rows, ledger_gains, enumerated, visited, raised,
                   tick_saved, fail_streak, rs_file, rs_cache, rsAux, envAux>>

\* Lines 3374-3398: outlook_app = Dispatch("Outlook.Application"), then
\* send_manager_hold_notification sends the notice.
HoldNotify ==
    /\ pc = "hold_notify"
    /\ outlook_app' = "app"
    /\ SendUnlessSafe(Head(todo))
    /\ NoteSuppressed(Head(todo), LogHoldNotifySuppressed)
    /\ Continue
    /\ UNCHANGED <<mail, policy_shape, ledger_file, poison_file, processed_ledger, message_key,
                   assignee, tick, faults, assigned_rows, ledger_gains, enumerated, visited,
                   raised, tick_saved, fail_streak, rs_file, rs_cache, rsAux, env,
                   safe_mode_cache, ledger_present, wrong_rows>>

\* Lines 2887-2891 and 2990-2994: HIB mail: the store guard, then
\* msg.UnRead = False.  A HIB notification of another store is not a HIB move
\* (hib_moved stays False) and goes on to the tests below line 2933, for a
\* transfer-domain sender down to the routing decision; a noise-rule mail of
\* another store is left as it is (line 3035).
HibMarkRead ==
    /\ pc = "hib_unread"
    /\ IF mail[Head(todo)].store_ok
       THEN SetMail(Head(todo), "inbox", FALSE) /\ pc' = "hib_move" /\ UNCHANGED todo
       ELSE IF mail[Head(todo)].kind = "hib"
       THEN UNCHANGED <<mail, todo>> /\ pc' = "route"
       ELSE UNCHANGED mail /\ Continue
    /\ UNCHANGED <<policy_shape, ledger_file, poison_file, processed_ledger, message_key,
                   assignee, tick, faults, sent, safeLog, assigned_rows, ledger_gains, enumerated, visited,
                   raised, tick_saved, fail_streak, rs_file, rs_cache, rsAux, pipeAux>>

\* Line 2892: msg.Move(hib_folder).
HibMove ==
    /\ pc = "hib_move"
    /\ SetMail(Head(todo), "hib", FALSE)
    /\ pc' = "hib_forward"
    /\ UNCHANGED <<policy_shape, ledger_file, poison_file, todo, processed_ledger, message_key,
                   assignee, tick, faults, sent, safeLog, assigned_rows, ledger_gains, enumerated, visited,
                   raised, tick_saved, fail_streak, rs_file, rs_cache, rsAux, pipeAux>>

\* Lines 2893-2921: the entry in memory, then the 16110 escalation is sent.
HibForward ==
    /\ pc = "hib_forward"
    /\ processed_ledger' = [processed_ledger EXCEPT
            ![message_key] = NewEntry("hib", tick, Head(todo), FALSE)]
    /\ SendUnlessSafe(Head(todo))
    /\ NoteSuppressed(Head(todo), NoLog)
    /\ pc' = "hib_save"
    /\ UNCHANGED <<mail, policy_shape, ledger_file, poison_file, todo, message_key, assignee, tick,
                   faults, assigned_rows, ledger_gains, enumerated, visited, raised, tick_saved,
                   fail_streak, rs_file, rs_cache, rsAux, pipeAux>>

\* Lines 2922-2923: the ledger is saved; the result is not read.
HibSave(ok) ==
    /\ pc = "hib_save"
    /\ Inject(ok)
    /\ UNCHANGED processed_ledger
    /\ save_processed_ledger(ok)
    /\ pc' = "hib_watchdog"
    /\ UNCHANGED <<mail, policy_shape, poison_file, todo, message_key, assignee, tick, sent, safeLog,
                   assigned_rows, enumerated, visited, raised, fail_streak, rs_file, rs_cache,
                   rsAux, pipeAux>>

\* Lines 3040-3060: JIRA follow-up: the duplicate test, the store guard, then
\* msg.UnRead = False.
JiraMarkRead ==
    /\ pc = "jira_unread"
    /\ IF processed_ledger[JiraKey(message_key)] /= NoEntry
       THEN Continue /\ UNCHANGED <<mail, wrong_rows>>
       ELSE IF ~mail[Head(todo)].store_ok
       THEN WrongMailbox(Head(todo)) /\ Continue /\ UNCHANGED mail
       ELSE SetMail(Head(todo), "inbox", FALSE) /\ pc' = "jira_move" /\ UNCHANGED <<todo, wrong_rows>>
    /\ UNCHANGED <<policy_shape, ledger_file, poison_file, processed_ledger, message_key, assignee,
                   tick, faults, sent, safeLog, assigned_rows, ledger_gains, enumerated, visited, raised,
                   tick_saved, fail_streak, rs_file, rs_cache, rsAux, envAux>>

\* Line 3061: msg.Move(jira_follow_up_folder).
JiraMove ==
    /\ pc = "jira_move"
    /\ SetMail(Head(todo), "jira", FALSE)
    /\ pc' = "jira_route"
    /\ UNCHANGED <<policy_shape, ledger_file, poison_file, todo, processed_ledger, message_key,
                   assignee, tick, faults, sent, safeLog, assigned_rows, ledger_gains, enumerated, visited,
                   raised, tick_saved, fail_streak, rs_file, rs_cache, rsAux, pipeAux>>

\* Lines 3068-3072: assignee = get_next_staff().
JiraRoute(ok) ==
    /\ pc = "jira_route"
    /\ ok \/ Len(rs_cache) > 0
    /\ Inject(ok)
    /\ LET r == get_next_staff(rs_cache, rs_file, ok)
       IN  /\ rs_file' = r.file
           /\ assignee' = r.person
           /\ IF r.person = None THEN Continue ELSE pc' = "jira_send" /\ UNCHANGED todo
    /\ UNCHANGED <<mail, policy_shape, ledger_file, poison_file, processed_ledger, message_key,
                   tick, sent, safeLog, assigned_rows, ledger_gains, enumerated, visited, raised,
                   tick_saved, fail_streak, rs_cache, rsAux, pipeAux>>

\* Lines 3074-3113: the follow-up forward is sent.
JiraSend ==
    /\ pc = "jira_send"
    /\ SendUnlessSafe(Head(todo))
    /\ NoteSuppressed(Head(todo), LogSuppressSend)
    /\ pc' = "jira_ledger"
    /\ UNCHANGED <<mail, policy_shape, ledger_file, poison_file, todo, processed_ledger,
                   message_key, assignee, tick, faults, assigned_rows, ledger_gains, enumerated,
                   visited, raised, tick_saved, fail_streak, rs_file, rs_cache, rsAux, pipeAux>>

\* Lines 3115-3152: both ledger entries, the save, the JIRA_FOLLOWUP_ASSIGNED row.
JiraLedger(ok) ==
    /\ pc = "jira_ledger"
    /\ Inject(ok)
    /\ processed_ledger' = [processed_ledger EXCEPT
            ![message_key] = NewEntry(assignee, tick, Head(todo), TRUE),
            ![JiraKey(message_key)] = NewEntry(assignee, tick, Head(todo), FALSE)]
    /\ save_processed_ledger(ok)
    /\ Continue
    /\ UNCHANGED <<mail, policy_shape, poison_file, message_key, assignee, tick, sent, safeLog,
                   assigned_rows, enumerated, visited, raised, fail_streak, rs_file, rs_cache,
                   rsAux, pipeAux>>

\* find_ledger_key_by_conversation_id: the first ledger key whose entry carries
\* the conversation id (all messages of the model are of one conversation).
find_ledger_key_by_conversation_id(ledger) ==
    IF \E k \in Keys : ledger[k].conversation_id
    THEN CHOOSE k \in Keys : ledger[k].conversation_id /\ \A j \in Keys : ledger[j].conversation_id => ledger[k].ts[1] < ledger[j].ts[1] \/ (ledger[k].ts[1] = ledger[j].ts[1] /\ ledger[k].ts[2] <= ledger[j].ts[2])
    ELSE None

\* Mutant of MarkCompleted: the linked entry is rebuilt instead of updated.
MarkCompleted_Rebuilds(entry, t, m) ==
    [NewEntry("completed", t, m, TRUE) EXCEPT
        !.completed_at = t, !.completed_by = "staff", !.completion_source = "subject_keyword"]

\* Lines 3169-3173: the completion fields are added to the linked entry.
MarkCompleted(entry, t, m) ==
    [entry EXCEPT !.completed_at = t, !.completed_by = "staff", !.completion_source = "subject_keyword"]

\* Lines 2859-2862 and 3204-3205: the message's ConversationID, here whether
\* it has one (all conversation ids of the model are the same conversation).
HasConversationId(m) == mail[m].kind /= "staff_completion_noconv"

\* Lines 3161-3173 and 3196-3212: a staff [COMPLETED] mail either completes the
\* entry of its conversation or, when there is none (line 655: or when it has
\* no conversation id), records itself.
Completion ==
    /\ pc = "completion"
    /\ LET conv == HasConversationId(Head(todo))
           match_key == IF conv THEN find_ledger_key_by_conversation_id(processed_ledger)
                        ELSE None
       IN  processed_ledger' =
             IF match_key /= None
             THEN [processed_ledger EXCEPT ![match_key] = MarkCompleted(@, tick, Head(todo))]
             ELSE [processed_ledger EXCEPT ![message_key] =
                      [NewEntry("completed", tick, Head(todo), conv) EXCEPT
                          !.completion_source = "staff_completed_confirmation"]]
    /\ pc' = "completion_save"
    /\ UNCHANGED <<mail, policy_shape, ledger_file, poison_file, todo, message_key, assignee, tick,
                   faults, sent, safeLog, assigned_rows, ledger_gains, enumerated, visited, raised,
                   tick_saved, fail_streak, rs_file, rs_cache, rsAux, pipeAux>>

\* Lines 3183-3186 and 3214-3217: the save; a failure ends this message.
CompletionSave(ok) ==
    /\ pc = "completion_save"
    /\ Inject(ok)
    /\ UNCHANGED processed_ledger
    /\ save_processed_ledger(ok)
    /\ IF ok THEN pc' = "completion_unread" /\ UNCHANGED todo ELSE Continue
    /\ UNCHANGED <<mail, policy_shape, poison_file, message_key, assignee, tick, sent, safeLog,
                   assigned_rows, enumerated, visited, raised, fail_streak, rs_file, rs_cache,
                   rsAux, pipeAux>>

\* Lines 3187 and 3218: msg.UnRead = False.
CompletionMarkRead ==
    /\ pc = "completion_unread"
    /\ SetMail(Head(todo), "inbox", FALSE)
    /\ pc' = "completion_move"
    /\ UNCHANGED <<policy_shape, ledger_file, poison_file, todo, processed_ledger, message_key,
                   assignee, tick, faults, sent, safeLog, assigned_rows, ledger_gains, enumerated, visited,
                   raised, tick_saved, fail_streak, rs_file, rs_cache, rsAux, pipeAux>>

\* Lines 3188-3195 and 3219-3228: a linked completion goes to the processed
\* folder, a stand-alone one to the completed folder.
CompletionMove ==
    /\ pc = "completion_move"
    /\ IF mail[Head(todo)].store_ok
       THEN /\ SetMail(Head(todo), IF processed_ledger[message_key] = NoEntry THEN "processed" ELSE "completed", FALSE)
            /\ UNCHANGED wrong_rows
       ELSE WrongMailbox(Head(todo)) /\ UNCHANGED mail
    /\ Continue
    /\ UNCHANGED <<policy_shape, ledger_file, poison_file, processed_ledger, message_key, assignee,
                   tick, faults, sent, safeLog, assigned_rows, ledger_gains, enumerated, visited, raised,
                   tick_saved, fail_streak, rs_file, rs_cache, rsAux, envAux>>

\* Lines 3484-3486: a support-staff completion: the COMPLETED stats row, then
\* msg.UnRead = False.
SamiMarkRead ==
    /\ pc = "sami_unread"
    /\ SetMail(Head(todo), "inbox", FALSE)
    /\ pc' = "sami_move"
    /\ UNCHANGED <<policy_shape, ledger_file, poison_file, todo, processed_ledger, message_key,
                   assignee, tick, faults, sent, safeLog, assigned_rows, ledger_gains, enumerated, visited,
                   raised, tick_saved, fail_streak, rs_file, rs_cache, rsAux, pipeAux>>

\* Lines 3487-3492: the store guard, then msg.Move(processed).
SamiMove ==
    /\ pc = "sami_move"
    /\ IF mail[Head(todo)].store_ok
       THEN SetMail(Head(todo), "processed", FALSE) /\ UNCHANGED wrong_rows
       ELSE WrongMailbox(Head(todo)) /\ UNCHANGED mail
    /\ pc' = "sami_ledger"
    /\ UNCHANGED <<policy_shape, ledger_file, poison_file, todo, processed_ledger, message_key,
                   assignee, tick, faults, sent, safeLog, assigned_rows, ledger_gains, enumerated, visited,
                   raised, tick_saved, fail_streak, rs_file, rs_cache, rsAux, envAux>>

\* Lines 3494-3513: the "completed" ledger entry and the save.
SamiLedger(ok) ==
    /\ pc = "sami_ledger"
    /\ Inject(ok)
    /\ processed_ledger' = [processed_ledger EXCEPT ![message_key] =
            [NewEntry("completed", tick, Head(todo), TRUE) EXCEPT
                !.completion_source = "sami_support_staff"]]
    /\ save_processed_ledger(ok)
    /\ Continue
    /\ UNCHANGED <<mail, policy_shape, poison_file, message_key, assignee, tick, sent, safeLog,
                   assigned_rows, enumerated, visited, raised, fail_streak, rs_file, rs_cache,
                   rsAux, pipeAux>>

(***************************************************************************)
(* SPECIFICATIONS                                                          *)
(***************************************************************************)

(***************************************************************************)
(* PART 5.  The HIB burst watchdog: hib_watchdog_record_and_maybe_alert    *)
(***************************************************************************)

HIB_BURST_WINDOW_MIN == 30
HIB_BURST_THRESHOLD == 15
HIB_BURST_COOLDOWN_MIN == 60

MaxObs == 3
MaxClock == 122

\* hib_watchdog.json: the event timestamps (minutes) and last_alert_iso,
\* <<>> when the key is absent.
WatchdogState(events, last_alert) == [hib_events |-> events, last_alert |-> last_alert]

\* Mutant of send_hib_burst_alert: the safe-mode test is left out.
send_hib_burst_alert_NoSafeTest(outlook, safe) == outlook /= None

\* _send_hib_burst_alert: whether mail.Send() is called.  outlook is the
\* outlook_app argument, None or "app"; the recipient address is configured.
send_hib_burst_alert(outlook, safe) ==
    IF outlook = None THEN FALSE
    ELSE IF safe THEN FALSE
    ELSE TRUE

\* Mutant of Trim: nothing is pruned.
Trim_KeepsAll(events, cutoff) == events

\* Lines 1259-1265: the entries whose time is at or after the cutoff.
Trim(events, cutoff) == SelectSeq(events, LAMBDA ts : ts >= cutoff)

\* Mutant of CooldownOk: the cooldown is not looked at.
CooldownOk_Always(last_alert, now) == TRUE

\* Lines 1267-1271: no alert recorded, or HIB_BURST_COOLDOWN_MIN have passed.
CooldownOk(last_alert, now) ==
    last_alert = <<>> \/ ~(now - last_alert[1] < HIB_BURST_COOLDOWN_MIN)

\* hib_watchdog_record_and_maybe_alert(now_dt, outlook_app, ...): the file
\* after the call, the state the call built, the count it tested, whether the
\* alert branch was taken and how many mails it sent.  The result of
\* atomic_write_json is not read.
hib_watchdog_record_and_maybe_alert(file, now, outlook, safe, replace_ok) ==
    LET hib_events == Trim(Append(file.hib_events, now), now - HIB_BURST_WINDOW_MIN)
        count == Len(hib_events)
        due == count >= HIB_BURST_THRESHOLD /\ CooldownOk(file.last_alert, now)
        one == IF send_hib_burst_alert(outlook, safe) THEN 1 ELSE 0
        state == WatchdogState(hib_events, IF due THEN <<now>> ELSE file.last_alert)
    IN  [file |-> atomic_write_json(file, state, replace_ok).file,
         state |-> state, count |-> count, due |-> due,
         sends |-> IF due THEN one + one ELSE 0]

VARIABLES
    wd_file,     \* hib_watchdog.json
    wd_clock,    \* datetime.now(), in minutes
    wd_obs,      \* the times of the observations made so far, in order
    wd_last      \* the latest observation: time, count tested, alert branch taken, mails sent, safeLog, ...

wdVars == <<wd_file, wd_clock, wd_obs, wd_last>>

NoObs == [t |-> 0, count |-> 0, due |-> FALSE, sends |-> 0, outlook |-> None, safe |-> FALSE,
          written |-> TRUE, n |-> 0, before |-> WatchdogState(<<>>, <<>>)]

\* The watchdog of an installation that has seen no HIB mail.
WdIdle ==
    /\ wd_file = WatchdogState(<<>>, <<>>)
    /\ wd_clock = 0
    /\ wd_obs = <<>>
    /\ wd_last = NoObs

Times(n, t) == [i \in 1..n |-> t]

\* The watchdog one observation short of the threshold: HIB_BURST_THRESHOLD - 1
\* observations in minute HIB_BURST_COOLDOWN_MIN, and (alerted at a) a burst
\* of HIB_BURST_THRESHOLD observations in minute a that raised an alert.
WdBurst(alerted_at) ==
    /\ wd_clock = HIB_BURST_COOLDOWN_MIN
    /\ wd_file = WatchdogState(Times(HIB_BURST_THRESHOLD - 1, HIB_BURST_COOLDOWN_MIN), alerted_at)
    /\ wd_obs = (IF alerted_at = <<>> THEN <<>> ELSE Times(HIB_BURST_THRESHOLD, alerted_at[1]))
                \o Times(HIB_BURST_THRESHOLD - 1, HIB_BURST_COOLDOWN_MIN)
    /\ wd_last = NoObs

WdInit ==
    \/ WdIdle
    \/ \E a \in {<<>>, <<0>>, <<1>>} : WdBurst(a)

\* The call of hib_watchdog_record_and_maybe_alert at the current time.
Observe(outlook, replace_ok) ==
    LET r == hib_watchdog_record_and_maybe_alert(wd_file, wd_clock, outlook, is_safe_mode, replace_ok)
    IN  /\ wd_file' = r.file
        /\ wd_obs' = Append(wd_obs, wd_clock)
        /\ wd_last' = [t |-> wd_clock, count |-> r.count, due |-> r.due, sends |-> r.sends,
                       outlook |-> outlook, safe |-> is_safe_mode, written |-> replace_ok,
                       n |-> wd_last.n + 1, before |-> wd_file]
        /\ UNCHANGED wd_clock

\* A HIB mail is routed: line 2926 passes locals().get("outlook_app"), line
\* 3028 a fresh Dispatch("Outlook.Application").
WatchdogObserve(outlook, replace_ok) ==
    /\ wd_last.n < MaxObs
    /\ Observe(outlook, replace_ok)

Steps == {HIB_BURST_WINDOW_MIN, HIB_BURST_WINDOW_MIN + 1}

\* Time passes.
WatchdogWait(d) ==
    /\ wd_clock + d <= MaxClock
    /\ wd_clock' = wd_clock + d
    /\ UNCHANGED <<wd_file, wd_obs, wd_last>>

\* Lines 2925-2926 and 3024-3028: the watchdog call of the HIB route.  The
\* notification branch passes locals().get("outlook_app"), which is None
\* unless an earlier message of the tick went through line 3376; the
\* noise-rule branch passes a fresh Dispatch("Outlook.Application").
HibWatchdog(ok) ==
    /\ pc = "hib_watchdog"
    /\ Inject(ok)
    /\ Observe(IF mail[Head(todo)].kind = "hib_noise" THEN "app"
               ELSE IF outlook_app = Unbound THEN None ELSE outlook_app, ok)
    /\ Continue
    /\ UNCHANGED <<mail, policy_shape, ledger_file, poison_file, processed_ledger, message_key,
                   assignee, tick, sent, safeLog, assigned_rows, ledger_gains, enumerated, visited, raised,
                   tick_saved, fail_streak, rs_file, rs_cache, rsAux, pipeAux>>

(***************************************************************************)
(* PART 6.  The single-instance lock: acquire_lock, release_lock           *)
(***************************************************************************)

MaxLaunches == 4

Procs == {1, 2, 3}

VARIABLES
    lk_file,       \* bot.lock: <<>> when absent, else <<pid written into it>>
    lk_pc,         \* process -> "off", "open", "check", "remove", "running"
    lk_acquired,   \* process -> _lock_acquired
    lk_visible,    \* process -> its command line holds "distributor.py" and the repo path
    lk_win,        \* sys.platform starts with "win"
    lk_launches    \* processes started so far

lkVars == <<lk_file, lk_pc, lk_acquired, lk_visible, lk_win, lk_launches>>

LkStart ==
    /\ lk_file = <<>>
    /\ lk_pc = [p \in Procs |-> "off"]
    /\ lk_acquired = [p \in Procs |-> FALSE]
    /\ lk_visible = [p \in Procs |-> FALSE]
    /\ lk_launches = 0

LkIdle == LkStart /\ lk_win = TRUE

LkInit == LkStart /\ lk_win \in BOOLEAN

\* Mutant of is_bot_running_windows: every python process counts, whatever its
\* command line.
is_bot_running_windows_AnyProcess(pcs, visible, wmic_ok) == TRUE

\* is_bot_running_windows: True when wmic fails, else whether some python.exe
\* process (the caller is one of them) has a command line with
\* "distributor.py" and the repository path in it.
is_bot_running_windows(pcs, visible, wmic_ok) ==
    IF ~wmic_ok THEN TRUE
    ELSE \E q \in Procs : pcs[q] /= "off" /\ visible[q]

\* "python <repo>\distributor.py" (visible) or "python distributor.py" run
\* from the repository directory.
Launch(p, visible) ==
    /\ lk_pc[p] = "off"
    /\ lk_launches < MaxLaunches
    /\ lk_launches' = lk_launches + 1
    /\ lk_pc' = [lk_pc EXCEPT ![p] = "open"]
    /\ lk_visible' = [lk_visible EXCEPT ![p] = visible]
    /\ lk_acquired' = [lk_acquired EXCEPT ![p] = FALSE]
    /\ UNCHANGED <<lk_file, lk_win>>

\* Lines 735-744: os.open(LOCK_PATH, O_CREAT | O_EXCL); on FileExistsError a
\* process that is not on Windows exits (line 3806).
OpenExcl(p) ==
    /\ lk_pc[p] = "open"
    /\ IF lk_file = <<>>
       THEN /\ lk_file' = <<p>>
            /\ lk_acquired' = [lk_acquired EXCEPT ![p] = TRUE]
            /\ lk_pc' = [lk_pc EXCEPT ![p] = "running"]
       ELSE /\ lk_pc' = [lk_pc EXCEPT ![p] = IF lk_win THEN "check" ELSE "off"]
            /\ UNCHANGED <<lk_file, lk_acquired>>
    /\ UNCHANGED <<lk_visible, lk_win, lk_launches>>

\* Line 743: the stale test.
CheckRunning(p, wmic_ok) ==
    /\ lk_pc[p] = "check"
    /\ lk_pc' = [lk_pc EXCEPT ![p] =
            IF is_bot_running_windows(lk_pc, lk_visible, wmic_ok) THEN "off" ELSE "remove"]
    /\ UNCHANGED <<lk_file, lk_acquired, lk_visible, lk_win, lk_launches>>

\* Lines 744-749: os.remove(LOCK_PATH) and acquire_lock() again; when the file
\* is gone already the error is swallowed and the process exits.
RemoveStale(p) ==
    /\ lk_pc[p] = "remove"
    /\ IF lk_file /= <<>>
       THEN lk_file' = <<>> /\ lk_pc' = [lk_pc EXCEPT ![p] = "open"]
       ELSE UNCHANGED lk_file /\ lk_pc' = [lk_pc EXCEPT ![p] = "off"]
    /\ UNCHANGED <<lk_acquired, lk_visible, lk_win, lk_launches>>

\* The process ends (Ctrl+C): atexit runs release_lock, which removes whatever
\* file is at LOCK_PATH.
CleanExit(p) ==
    /\ lk_pc[p] = "running"
    /\ lk_file' = IF lk_acquired[p] THEN <<>> ELSE lk_file
    /\ lk_pc' = [lk_pc EXCEPT ![p] = "off"]
    /\ UNCHANGED <<lk_acquired, lk_visible, lk_win, lk_launches>>

\* The process is killed: no atexit handler runs.
Kill(p) ==
    /\ lk_pc[p] /= "off"
    /\ lk_pc' = [lk_pc EXCEPT ![p] = "off"]
    /\ UNCHANGED <<lk_file, lk_acquired, lk_visible, lk_win, lk_launches>>


(***************************************************************************)
(* PART 7.  Semantic risk detection: detect_risk                           *)
(***************************************************************************)

\* Strings are sequences of one-character strings, so that the substring
\* tests of detect_risk are computed on the text itself.
\* Lines 239-244.
RISK_ACTIONS == <<
    <<"d", "e", "l", "e", "t", "e">>,
    <<"d", "e", "l", "e", "t", "i", "o", "n">>,
    <<"r", "e", "m", "o", "v", "e">>,
    <<"u", "n", "l", "i", "n", "k">>,
    <<"p", "u", "r", "g", "e">>,
    <<"e", "r", "a", "s", "e">>,
    <<"d", "e", "s", "t", "r", "o", "y">>,
    <<"c", "a", "n", "c", "e", "l">>,
    <<"v", "o", "i", "d">>,
    <<"n", "u", "l", "l", "i", "f", "y">>,
    <<"t", "e", "r", "m", "i", "n", "a", "t", "e">>,
    <<"m", "e", "r", "g", "e">>,
    <<"m", "e", "r", "g", "i", "n", "g">>,
    <<"m", "e", "r", "g", "e", "d">>,
    <<"s", "p", "l", "i", "t">>,
    <<"s", "p", "l", "i", "t", "t", "i", "n", "g">>,
    <<"c", "o", "m", "b", "i", "n", "e">>,
    <<"d", "u", "p", "l", "i", "c", "a", "t", "e">>,
    <<"d", "e", "d", "u", "p", "e">>,
    <<"d", "e", "d", "u", "p">> >>

\* Lines 246-250.
RISK_CONTEXT == <<
    <<"p", "a", "t", "i", "e", "n", "t">>,
    <<"s", "c", "a", "n">>,
    <<"a", "c", "c", "e", "s", "s", "i", "o", "n">>,
    <<"s", "t", "u", "d", "y">>,
    <<"e", "x", "a", "m">>,
    <<"r", "e", "p", "o", "r", "t">>,
    <<"i", "m", "a", "g", "i", "n", "g">>,
    <<"d", "i", "c", "o", "m">>,
    <<"m", "r", "i">>,
    <<"c", "t">>,
    <<"u", "l", "t", "r", "a", "s", "o", "u", "n", "d">>,
    <<"x", "r", "a", "y">>,
    <<"x", "-", "r", "a", "y">>,
    <<"r", "e", "c", "o", "r", "d">>,
    <<"d", "a", "t", "a">>,
    <<"f", "i", "l", "e">>,
    <<"p", "r", "i", "o", "r">>,
    <<"c", "o", "m", "p", "a", "r", "i", "s", "o", "n">> >>

\* Lines 252-255.
URGENCY_WORDS == <<
    <<"s", "t", "a", "t">>,
    <<"a", "s", "a", "p">>,
    <<"u", "r", "g", "e", "n", "t">>,
    <<"e", "m", "e", "r", "g", "e", "n", "c", "y">>,
    <<"c", "r", "i", "t", "i", "c", "a", "l">>,
    <<"i", "m", "m", "e", "d", "i", "a", "t", "e">>,
    <<"n", "o", "w">>,
    <<"r", "u", "s", "h">>,
    <<"p", "r", "i", "o", "r", "i", "t", "y">>,
    <<"l", "i", "f", "e", "-", "t", "h", "r", "e", "a", "t", "e", "n", "i", "n", "g">>,
    <<"c", "o", "d", "e">> >>

UpperCase == <<"A", "B", "C", "D", "E", "F", "G", "H", "I", "J", "K", "L", "M",
               "N", "O", "P", "Q", "R", "S", "T", "U", "V", "W", "X", "Y", "Z">>
LowerCase == <<"a", "b", "c", "d", "e", "f", "g", "h", "i", "j", "k", "l", "m",
               "n", "o", "p", "q", "r", "s", "t", "u", "v", "w", "x", "y", "z">>

\* str.lower() (line 2140).
LowerChar(c) ==
    IF \E i \in 1..26 : UpperCase[i] = c
    THEN LowerCase[CHOOSE i \in 1..26 : UpperCase[i] = c]
    ELSE c

lower(s) == [i \in 1..Len(s) |-> LowerChar(s[i])]

\* Python's "w in text" for strings: w occurs as a substring.
IsIn(w, text) ==
    \E i \in 1..(Len(text) - Len(w) + 1) : SubSeq(text, i, i + Len(w) - 1) = w

\* Lines 2143-2145: [w for w in words if w in text].
Found(words, text) == SelectSeq(words, LAMBDA w : IsIn(w, text))

\* Mutant of detect_risk: rule 3 (urgency + action) is missing.
detect_risk_NoUrgencyAction(subject, body, high_importance) ==
    LET text == lower(subject \o <<" ">> \o body)
        found_actions == Found(RISK_ACTIONS, text)
        found_context == Found(RISK_CONTEXT, text)
        found_urgency == Found(URGENCY_WORDS, text)
    IN  IF high_importance THEN <<"critical", <<"Outlook High Importance Flag">> >>
        ELSE IF found_actions /= <<>> /\ found_context /= <<>>
        THEN <<"critical", <<"Action+Context", found_actions[1], found_context[1]>> >>
        ELSE IF found_urgency /= <<>>
        THEN <<"urgent", <<"Urgency", found_urgency[1]>> >>
        ELSE IF found_actions /= <<>>
        THEN <<"urgent", <<"Action detected", found_actions[1]>> >>
        ELSE <<"normal", <<>> >>

\* Lines 2134-2167.  The result is <<level, reason>>; the reason None is <<>>.
detect_risk(subject, body, high_importance) ==
    LET text == lower(subject \o <<" ">> \o body)
        found_actions == Found(RISK_ACTIONS, text)
        found_context == Found(RISK_CONTEXT, text)
        found_urgency == Found(URGENCY_WORDS, text)
    IN  IF high_importance THEN <<"critical", <<"Outlook High Importance Flag">> >>
        ELSE IF found_actions /= <<>> /\ found_context /= <<>>
        THEN <<"critical", <<"Action+Context", found_actions[1], found_context[1]>> >>
        ELSE IF found_urgency /= <<>> /\ found_actions /= <<>>
        THEN <<"critical", <<"Urgency+Action", found_urgency[1], found_actions[1]>> >>
        ELSE IF found_urgency /= <<>>
        THEN <<"urgent", <<"Urgency", found_urgency[1]>> >>
        ELSE IF found_actions /= <<>>
        THEN <<"urgent", <<"Action detected", found_actions[1]>> >>
        ELSE <<"normal", <<>> >>

\* The words subjects and bodies are made of: an action word, a context
\* word, an urgency word in upper case, an urgency word that contains a
\* context word (priority, prior), a word of no list, and two words of no list
\* that contain a listed word (know: now; contact: ct).
RiskVocabulary == <<
    <<"d", "e", "l", "e", "t", "e">>,
    <<"p", "a", "t", "i", "e", "n", "t">>,
    <<"S", "T", "A", "T">>,
    <<"p", "r", "i", "o", "r", "i", "t", "y">>,
    <<"h", "e", "l", "l", "o">>,
    <<"k", "n", "o", "w">>,
    <<"c", "o", "n", "t", "a", "c", "t">> >>

MaxRiskWords == 1

RECURSIVE JoinWords(_)
JoinWords(ws) ==
    IF ws = <<>> THEN <<>>
    ELSE IF Len(ws) = 1 THEN ws[1]
    ELSE ws[1] \o <<" ">> \o JoinWords(Tail(ws))

\* Subjects and bodies: up to MaxRiskWords words, separated by blanks.
RiskPhrases ==
    { JoinWords([i \in 1..Len(f) |-> RiskVocabulary[f[i]]]) :
        f \in UNION { [1..n -> 1..Len(RiskVocabulary)] : n \in 0..MaxRiskWords } }

VARIABLES
    risk_subject,      \* msg.Subject
    risk_body,         \* msg.Body
    risk_importance,   \* msg.Importance == 2
    risk_result        \* <<>> or <<detect_risk's return value>>

riskVars == <<risk_subject, risk_body, risk_importance, risk_result>>

RiskInit ==
    /\ risk_subject \in RiskPhrases
    /\ risk_body \in RiskPhrases
    /\ risk_importance \in BOOLEAN
    /\ risk_result = <<>>

RiskIdle ==
    /\ risk_subject = <<>>
    /\ risk_body = <<>>
    /\ risk_importance = FALSE
    /\ risk_result = <<>>

\* Line 3405: risk_level, risk_reason = detect_risk(subject, body, high_importance).
DetectRisk ==
    /\ risk_result = <<>>
    /\ risk_result' = <<detect_risk(risk_subject, risk_body, risk_importance)>>
    /\ UNCHANGED <<risk_subject, risk_body, risk_importance>>

(***************************************************************************)
(* PART 8.  The dashboard's open tickets: export_active_events             *)
(***************************************************************************)

MaxRows == 2

\* str.upper().
UpperChar(c) ==
    IF \E i \in 1..26 : LowerCase[i] = c
    THEN UpperCase[CHOOSE i \in 1..26 : LowerCase[i] = c]
    ELSE c

upper(s) == [i \in 1..Len(s) |-> UpperChar(s[i])]

\* str.strip().
RECURSIVE strip(_)
strip(s) ==
    IF s = <<>> THEN s
    ELSE IF Head(s) = " " THEN strip(Tail(s))
    ELSE IF s[Len(s)] = " " THEN strip(SubSeq(s, 1, Len(s) - 1))
    ELSE s

\* The sami_id column: blank, two ticket ids, and the first id as an older
\* writer left it (lower case, trailing blank).
SamiBlank == <<>>
SamiOne == <<"S", "A", "M", "I", "-", "1">>
SamiOneLoose == <<"s", "a", "m", "i", "-", "1", " ">>
SamiTwo == <<"S", "A", "M", "I", "-", "2">>

\* Days of the event log; the dashboard is asked for one day.
KpiDays == {1, 2, 3}

\* config.NON_STAFF_ASSIGNEES.
NON_STAFF_ASSIGNEES == {"bot", "completed", "hib", "hold", "error", "quarantined",
                        "system_notification"}

KpiStaff == "alice.smith@example.com"

\* Rows of the event log.  subject_tag: the SAMI tag in the Subject column.
AssignedRows ==
    [event_type : {"ASSIGNED"}, date : {2, 3}, assigned_to : {KpiStaff, "hold"},
     sami_id : {SamiBlank, SamiOne, SamiOneLoose}, msg_key : {"a", "b"},
     subject_tag : {SamiBlank}]

CompletedRows ==
    [event_type : {"COMPLETED"}, date : KpiDays, assigned_to : {"completed"},
     sami_id : {SamiBlank, SamiOne, SamiTwo}, msg_key : {"c"},
     subject_tag : {SamiBlank, SamiOne}]

KpiRows == AssignedRows \cup CompletedRows

\* _normalise_rows, for the columns export_active_events reads: sami_id is
\* stripped, the date is the event timestamp's day.
_normalise_rows(rows) ==
    [i \in 1..Len(rows) |-> [rows[i] EXCEPT !.sami_id = strip(@)]]

\* "@" in email, for the addresses of the rows.
HasAt(email) == email = KpiStaff

_is_staff(email) == email /= "" /\ email \notin NON_STAFF_ASSIGNEES /\ HasAt(email)

_display_sami_ref(e) == upper(strip(e.sami_id))

_resolve_sami_group_key(e) == lower(strip(e.sami_id))

\* Mutant of CompletedSamiKeys: a completion also closes the ticket whose
\* tag is in its subject.
CompletedSamiKeys_BySubjectTag(events, date_end) ==
    { lower(strip(events[i].subject_tag)) :
        i \in {j \in 1..Len(events) : events[j].event_type = "COMPLETED"
                                      /\ events[j].date <= date_end} }
    \cup { _resolve_sami_group_key(events[i]) :
        i \in {j \in 1..Len(events) : events[j].event_type = "COMPLETED"
                                      /\ events[j].date <= date_end} }

\* Lines 502-510: the sami keys of the COMPLETED rows dated up to date_end.
CompletedSamiKeys(events, date_end) ==
    { _resolve_sami_group_key(events[i]) :
        i \in {j \in 1..Len(events) : events[j].event_type = "COMPLETED"
                                      /\ events[j].date <= date_end} }

\* Line 533: sami_ref, else msg:<msg_key>, else date|time|staff|subject.
KpiIdentity(e) ==
    IF _display_sami_ref(e) /= <<>> THEN <<"sami", _display_sami_ref(e)>>
    ELSE IF e.msg_key /= "" THEN <<"msg", e.msg_key>>
    ELSE <<"row", e.date, e.assigned_to, e.subject_tag>>

ActiveRow(e) ==
    [Date |-> e.date, SamiRef |-> _display_sami_ref(e), StaffEmail |-> e.assigned_to,
     MessageKey |-> e.msg_key, Identity |-> KpiIdentity(e), event_ts |-> e.date]

\* Lines 512-555: latest_by_identity, a dict in insertion order, as the
\* sequence of its values.
RECURSIVE LatestByIdentity(_, _, _, _)
LatestByIdentity(es, completed, staff_target, acc) ==
    IF es = <<>> THEN acc
    ELSE LET e == Head(es)
             sami_key == _resolve_sami_group_key(e)
             identity == KpiIdentity(e)
             at == {k \in 1..Len(acc) : acc[k].Identity = identity}
             skip == \/ e.event_type /= "ASSIGNED"
                     \/ ~_is_staff(e.assigned_to)
                     \/ staff_target /= "" /\ staff_target /= e.assigned_to
                     \/ sami_key /= <<>> /\ sami_key \in completed
                     \/ \E k \in at : acc[k].event_ts >= e.date
             next == IF skip THEN acc
                     ELSE IF at /= {}
                     THEN [k \in 1..Len(acc) |-> IF k \in at THEN ActiveRow(e) ELSE acc[k]]
                     ELSE Append(acc, ActiveRow(e))
         IN  LatestByIdentity(Tail(es), completed, staff_target, next)

\* Line 565: list.sort(key = event_ts, reverse = True), which is stable.
RECURSIVE SortByTsDesc(_)
SortByTsDesc(rs) ==
    IF rs = <<>> THEN <<>>
    ELSE LET top == CHOOSE k \in 1..Len(rs) :
                        /\ \A j \in 1..Len(rs) : rs[j].event_ts <= rs[k].event_ts
                        /\ \A j \in 1..(k - 1) : rs[j].event_ts < rs[k].event_ts
         IN  <<rs[top]>> \o SortByTsDesc(SubSeq(rs, 1, top - 1) \o SubSeq(rs, top + 1, Len(rs)))

\* Lines 492-568.
export_active_events(rows, date_start, date_end, staff_name, reconciled_set) ==
    LET events == _normalise_rows(rows)
        filtered == SelectSeq(events, LAMBDA e : date_start <= e.date /\ e.date <= date_end)
        completed_sami_keys == CompletedSamiKeys(events, date_end) \ {<<>>}
        latest == LatestByIdentity(filtered, completed_sami_keys, staff_name, <<>>)
        kept == SelectSeq(latest, LAMBDA r : r.Identity \notin reconciled_set)
    IN  SortByTsDesc(kept)

\* Lines 585-607 and 727 of compute_dashboard: summary.active_count.
compute_dashboard(rows, date_start, date_end, staff_filter, reconciled_set) ==
    IF rows = <<>> THEN 0
    ELSE Len(export_active_events(rows, date_start, date_end, staff_filter, reconciled_set))

\* The reconciled sets the dashboard passes.
ReconciledSets == { {}, {<<"sami", SamiOne>>, <<"msg", "a">>} }

VARIABLES
    kpi_rows,          \* the rows of the event log
    kpi_reconciled,    \* reconciled_set
    kpi_done,          \* the two calls were made
    kpi_out,           \* what export_active_events returned
    kpi_active_count   \* summary.active_count of compute_dashboard

kpiVars == <<kpi_rows, kpi_reconciled, kpi_done, kpi_out, kpi_active_count>>

KpiInit ==
    /\ kpi_rows \in UNION { [1..n -> KpiRows] : n \in 0..MaxRows }
    /\ kpi_reconciled \in ReconciledSets
    /\ kpi_done = FALSE
    /\ kpi_out = <<>>
    /\ kpi_active_count = 0

KpiIdle ==
    /\ kpi_rows = <<>>
    /\ kpi_reconciled = {}
    /\ kpi_done = FALSE
    /\ kpi_out = <<>>
    /\ kpi_active_count = 0

\* The dashboard is computed for day 2, and the open tickets are exported
\* with the same arguments.
ComputeDashboard ==
    /\ ~kpi_done
    /\ kpi_done' = TRUE
    /\ kpi_out' = export_active_events(kpi_rows, 2, 2, "", kpi_reconciled)
    /\ kpi_active_count' = compute_dashboard(kpi_rows, 2, 2, "", kpi_reconciled)
    /\ UNCHANGED <<kpi_rows, kpi_reconciled>>

(***************************************************************************)
(* PART 9.  The stats file: append_stats and the schema rotation           *)
(***************************************************************************)

MaxStatsRows == 3

\* Lines 1967-1971: the header append_stats writes into a new file.
StatsHeaderWide ==
    <<"Date", "Time", "Subject", "Assigned To", "Sender", "Risk Level",
      "Domain Bucket", "Action", "Policy Source", "event_type", "msg_key",
      "status_after", "assigned_to", "assigned_ts", "completed_ts", "duration_sec">>

\* Lines 2060-2063: the header maybe_rotate_daily_stats_to_new_schema writes.
StatsHeaderRotated ==
    <<"Date", "Time", "Subject", "Assigned To", "Sender", "Risk Level",
      "Domain Bucket", "Action", "Policy Source">>

\* The header of a file written by an old version of the bot.
StatsHeaderNarrow == <<"Date", "Time", "Subject", "Assigned To", "Sender", "Risk Level">>

\* daily_stats.csv: absent, or its lines, each a sequence of fields.
NoStatsFile == [exists |-> FALSE, lines |-> <<>>]

StatsFile(lines) == [exists |-> TRUE, lines |-> lines]

\* Lines 1989-2006: the sixteen fields of a row.
StatsRow(assigned_to, event_type) ==
    <<"2026-01-01", "09:00:00", "subject", assigned_to, "sender", "normal",
      "bucket", "action", "policy", event_type, "key", "", assigned_to, "", "", "">>

\* len(first_line.split(',')): no field of a header holds a comma.
ColCount(first_line) == Len(first_line)

\* Lines 1952-1960: use_old_schema, from the first line of an existing file.
use_old_schema(file) ==
    file.exists /\ file.lines /= <<>> /\ ColCount(Head(file.lines)) <= 6

\* append_stats: the file after the call.  open_ok = FALSE: opening the file
\* for append raises and the except block only logs.
append_stats(file, row, open_ok) ==
    IF ~open_ok THEN file
    ELSE LET base == IF file.exists THEN file.lines ELSE <<StatsHeaderWide>>
             written == IF use_old_schema(file) THEN SubSeq(row, 1, 6) ELSE row
         IN  StatsFile(Append(base, written))

\* maybe_rotate_daily_stats_to_new_schema: the file and the archives after
\* the call.  write_ok = FALSE: writing the fresh file raises after the old
\* one was renamed away.
maybe_rotate_daily_stats_to_new_schema(file, archives, write_ok) ==
    IF ~file.exists \/ file.lines = <<>> \/ ColCount(Head(file.lines)) > 6
    THEN [file |-> file, archives |-> archives]
    ELSE [file |-> IF write_ok THEN StatsFile(<<StatsHeaderRotated>>) ELSE NoStatsFile,
          archives |-> Append(archives, file.lines)]

VARIABLES
    stats_file,      \* daily_stats.csv
    stats_archives   \* the daily_stats_legacy_<i>.csv files, in order

stVars == <<stats_file, stats_archives>>

\* The stats file the bot starts with: none, an empty one, one of an old
\* version with its narrow rows, or one this version created.
StInit ==
    /\ stats_file \in {NoStatsFile, StatsFile(<<>>), StatsFile(<<StatsHeaderNarrow>>),
                       StatsFile(<<StatsHeaderNarrow, SubSeq(StatsRow("alice", ""), 1, 6)>>),
                       StatsFile(<<StatsHeaderWide>>)}
    /\ stats_archives = <<>>

StIdle ==
    /\ stats_file = NoStatsFile
    /\ stats_archives = <<>>

\* The data rows of the file: the lines after its first.
StatsDataRows(file) == IF file.lines = <<>> THEN <<>> ELSE Tail(file.lines)

\* One call of append_stats from the pipeline.
AppendStats(assigned_to, event_type, open_ok) ==
    /\ Len(StatsDataRows(stats_file)) < MaxStatsRows
    /\ stats_file' = append_stats(stats_file, StatsRow(assigned_to, event_type), open_ok)
    /\ UNCHANGED stats_archives

\* Line 3830: the bot is started.
RotateStats(write_ok) ==
    /\ LET r == maybe_rotate_daily_stats_to_new_schema(stats_file, stats_archives, write_ok)
       IN  /\ stats_file' = r.file
           /\ stats_archives' = r.archives

fnVars == <<riskVars, kpiVars, stVars>>

FnIdle == RiskIdle /\ KpiIdle /\ StIdle

vars == <<clsVars, cfgVars, rsVars, pipeVars, wdVars, lkVars, fnVars>>

ClassifyNext ==
    \/ ClassifyMessage /\ UNCHANGED <<cfgVars, rsVars, pipeVars, wdVars, lkVars, fnVars>>
    \/ NextMessage /\ UNCHANGED <<cfgVars, rsVars, pipeVars, wdVars, lkVars, fnVars>>

InitClassify == ClsInit /\ CfgIdle /\ RsIdle /\ PipeIdle /\ WdIdle /\ LkIdle /\ FnIdle

SpecClassify == InitClassify /\ [][ClassifyNext]_vars

ConfigNext ==
    \/ (\E n \in CfgNames, c \in FileContents : WriteConfig(n, c)) /\ UNCHANGED <<clsVars, rsVars, pipeVars, wdVars, lkVars, fnVars>>
    \/ (\E n \in CfgNames : DeleteConfig(n)) /\ UNCHANGED <<clsVars, rsVars, pipeVars, wdVars, lkVars, fnVars>>
    \/ ConfigTick /\ UNCHANGED <<clsVars, rsVars, pipeVars, wdVars, lkVars, fnVars>>
    \/ ConfigRestart /\ UNCHANGED <<clsVars, rsVars, pipeVars, wdVars, lkVars, fnVars>>

InitConfig == CfgInit /\ ClsIdle /\ RsIdle /\ PipeIdle /\ WdIdle /\ LkIdle /\ FnIdle

SpecConfig == InitConfig /\ [][ConfigNext]_vars

RosterNext ==
    \/ RosterTickStart /\ UNCHANGED <<clsVars, cfgVars, pipeVars, wdVars, lkVars, fnVars>>
    \/ (\E ok \in BOOLEAN : GetNextStaff(ok)) /\ UNCHANGED <<clsVars, cfgVars, pipeVars, wdVars, lkVars, fnVars>>
    \/ RosterTickEndOrRestart /\ UNCHANGED <<clsVars, cfgVars, pipeVars, wdVars, lkVars, fnVars>>
    \/ (\E r \in Rosters : EditStaff(r)) /\ UNCHANGED <<clsVars, cfgVars, pipeVars, wdVars, lkVars, fnVars>>

InitRoster == RsInit /\ ClsIdle /\ CfgIdle /\ PipeIdle /\ WdIdle /\ LkIdle /\ FnIdle

SpecRoster == InitRoster /\ [][RosterNext]_vars

otherVars == <<clsVars, cfgVars, lkVars, fnVars>>

idleVars == <<otherVars, wdVars>>

Next ==
    \/ (\E ok \in BOOLEAN : TickStart(ok)) /\ UNCHANGED idleVars
    \/ TickEnd /\ UNCHANGED idleVars
    \/ Crash /\ UNCHANGED idleVars
    \/ BeginMessage /\ UNCHANGED idleVars
    \/ (\E ok \in BOOLEAN : Route(ok)) /\ UNCHANGED idleVars
    \/ (\E ok \in BOOLEAN : LedgerWrite(ok)) /\ UNCHANGED idleVars
    \/ SilentMarkRead /\ UNCHANGED idleVars
    \/ SilentMove /\ UNCHANGED idleVars
    \/ (\E ok \in BOOLEAN : ForwardAndSend(ok)) /\ UNCHANGED idleVars
    \/ AppendAssignedStats /\ UNCHANGED idleVars
    \/ MarkRead /\ UNCHANGED idleVars
    \/ (\E ok \in BOOLEAN : MoveProcessed(ok)) /\ UNCHANGED idleVars
    \/ ReviewSend /\ UNCHANGED idleVars
    \/ ReviewMarkRead /\ UNCHANGED idleVars
    \/ (\E ok \in BOOLEAN : ReviewMove(ok)) /\ UNCHANGED idleVars
    \/ (\E ok \in BOOLEAN : ReviewLedger(ok)) /\ UNCHANGED idleVars
    \/ (\E ok \in BOOLEAN : HoldLedger(ok)) /\ UNCHANGED idleVars
    \/ HoldMarkRead /\ UNCHANGED idleVars
    \/ (\E ok \in BOOLEAN : HoldMove(ok)) /\ UNCHANGED idleVars
    \/ HoldNotify /\ UNCHANGED idleVars
    \/ HibMarkRead /\ UNCHANGED idleVars
    \/ HibMove /\ UNCHANGED idleVars
    \/ HibForward /\ UNCHANGED idleVars
    \/ (\E ok \in BOOLEAN : HibSave(ok)) /\ UNCHANGED idleVars
    \/ (\E ok \in BOOLEAN : HibWatchdog(ok)) /\ UNCHANGED otherVars
    \/ JiraMarkRead /\ UNCHANGED idleVars
    \/ JiraMove /\ UNCHANGED idleVars
    \/ (\E ok \in BOOLEAN : JiraRoute(ok)) /\ UNCHANGED idleVars
    \/ JiraSend /\ UNCHANGED idleVars
    \/ (\E ok \in BOOLEAN : JiraLedger(ok)) /\ UNCHANGED idleVars
    \/ Completion /\ UNCHANGED idleVars
    \/ (\E ok \in BOOLEAN : CompletionSave(ok)) /\ UNCHANGED idleVars
    \/ CompletionMarkRead /\ UNCHANGED idleVars
    \/ CompletionMove /\ UNCHANGED idleVars
    \/ SamiMarkRead /\ UNCHANGED idleVars
    \/ SamiMove /\ UNCHANGED idleVars
    \/ (\E ok \in BOOLEAN : SamiLedger(ok)) /\ UNCHANGED idleVars

Init == PipeInit /\ RsPipeInit /\ ClsIdle /\ CfgIdle /\ WdIdle /\ LkIdle /\ FnIdle

Spec == Init /\ [][Next]_vars

\* The kinds whose sender is on the staff list.
StaffKinds == {"staff_completion", "staff_completion_jira", "staff_reply_cc",
               "staff_completion_noconv"}

\* The pipeline in any environment: one unread message of any kind, in the
\* expected store or not (message 2 was quarantined and read earlier), any
\* combination of the environment flags, processed_ledger.json present or
\* missing, staff.json with two addresses or none (a staff sender needs a
\* staff list).
EnvInit ==
    /\ mail \in { [m \in Msgs |->
                     IF m = 1 THEN [Message(k, "k1") EXCEPT !.store_ok = s]
                     ELSE [Message("quarantine", "k2") EXCEPT !.loc = "quarantine", !.unread = FALSE]] :
                   k \in Kinds, s \in BOOLEAN }
    /\ policy_shape = "ok"
    /\ faults = 0
    /\ env \in Envs
    /\ ledger_present \in BOOLEAN
    /\ PipeStart

RsEnvInit ==
    /\ rs_file = RosterState(0, 0)
    /\ rs_staff_file \in {<<>>, <<"alice", "bob">>}
    /\ rs_cache = <<>>
    /\ rs_in_tick = FALSE
    /\ rs_ncalls = 0
    /\ rs_last = NoCall
    /\ rs_run = <<>>
    /\ rs_roster = <<>>

InitEnv ==
    /\ EnvInit /\ RsEnvInit /\ ClsIdle /\ CfgIdle /\ WdBurst(<<>>) /\ LkIdle /\ FnIdle
    /\ mail[1].kind \in StaffKinds => rs_staff_file /= <<>>

SpecEnv == InitEnv /\ [][Next]_vars

\* The watchdog alone, in any environment.
WdPipeIdle ==
    /\ mail = [m \in Msgs |-> Message("quarantine", "k1")]
    /\ policy_shape = "ok"
    /\ faults = 0
    /\ env \in {LiveEnv, [LiveEnv EXCEPT !.live = FALSE]}
    /\ ledger_present = TRUE
    /\ PipeStart

WatchdogNext ==
    \/ (\E outlook \in {None, "app"}, ok \in BOOLEAN : WatchdogObserve(outlook, ok))
            /\ UNCHANGED <<clsVars, cfgVars, rsVars, pipeVars, lkVars, fnVars>>
    \/ (\E d \in Steps : WatchdogWait(d)) /\ UNCHANGED <<clsVars, cfgVars, rsVars, pipeVars, lkVars, fnVars>>

InitWatchdog == WdInit /\ WdPipeIdle /\ RsIdle /\ ClsIdle /\ CfgIdle /\ LkIdle /\ FnIdle

SpecWatchdog == InitWatchdog /\ [][WatchdogNext]_vars

lockOther == <<clsVars, cfgVars, rsVars, pipeVars, wdVars, fnVars>>

LockNext ==
    \/ (\E p \in Procs, visible \in BOOLEAN : Launch(p, visible)) /\ UNCHANGED lockOther
    \/ (\E p \in Procs : OpenExcl(p)) /\ UNCHANGED lockOther
    \/ (\E p \in Procs, wmic_ok \in BOOLEAN : CheckRunning(p, wmic_ok)) /\ UNCHANGED lockOther
    \/ (\E p \in Procs : RemoveStale(p)) /\ UNCHANGED lockOther
    \/ (\E p \in Procs : CleanExit(p)) /\ UNCHANGED lockOther
    \/ (\E p \in Procs : Kill(p)) /\ UNCHANGED lockOther

InitLock == LkInit /\ PipeIdle /\ RsIdle /\ ClsIdle /\ CfgIdle /\ WdIdle /\ FnIdle

SpecLock == InitLock /\ [][LockNext]_vars

\* The lock with the scheduling that restarts the bot: only a process that
\* holds the lock is killed, a process that was started takes its steps of
\* acquire_lock, and the bot is started again (scheduled task) while starts
\* remain.
KillHolder(p) == lk_pc[p] = "running" /\ Kill(p)

StartStep(p) ==
    \/ OpenExcl(p)
    \/ \E wmic_ok \in BOOLEAN : CheckRunning(p, wmic_ok)
    \/ RemoveStale(p)

Relaunch == \E p \in Procs, visible \in BOOLEAN : Launch(p, visible)

LockLiveNext ==
    \/ Relaunch /\ UNCHANGED lockOther
    \/ (\E p \in Procs : StartStep(p)) /\ UNCHANGED lockOther
    \/ (\E p \in Procs : CleanExit(p)) /\ UNCHANGED lockOther
    \/ (\E p \in Procs : KillHolder(p)) /\ UNCHANGED lockOther

SpecLockLive ==
    /\ InitLock
    /\ [][LockLiveNext]_vars
    /\ WF_vars(Relaunch /\ UNCHANGED lockOther)
    /\ \A p \in Procs : WF_vars(StartStep(p) /\ UNCHANGED lockOther)

riskOther == <<clsVars, cfgVars, rsVars, pipeVars, wdVars, lkVars, kpiVars, stVars>>

RiskNext == DetectRisk /\ UNCHANGED riskOther

InitRisk == RiskInit /\ KpiIdle /\ StIdle /\ PipeIdle /\ RsIdle /\ ClsIdle /\ CfgIdle /\ WdIdle /\ LkIdle

SpecRisk == InitRisk /\ [][RiskNext]_vars

kpiOther == <<clsVars, cfgVars, rsVars, pipeVars, wdVars, lkVars, riskVars, stVars>>

KpiNext == ComputeDashboard /\ UNCHANGED kpiOther

InitKpi == KpiInit /\ RiskIdle /\ StIdle /\ PipeIdle /\ RsIdle /\ ClsIdle /\ CfgIdle /\ WdIdle /\ LkIdle

SpecKpi == InitKpi /\ [][KpiNext]_vars

statsOther == <<clsVars, cfgVars, rsVars, pipeVars, wdVars, lkVars, riskVars, kpiVars>>

StatsNext ==
    \/ (\E a \in {"alice", "completed"}, e \in {"ASSIGNED", "COMPLETED"}, ok \in BOOLEAN :
            AppendStats(a, e, ok)) /\ UNCHANGED statsOther
    \/ (\E ok \in BOOLEAN : RotateStats(ok)) /\ UNCHANGED statsOther

InitStats == StInit /\ RiskIdle /\ KpiIdle /\ PipeIdle /\ RsIdle /\ ClsIdle /\ CfgIdle /\ WdIdle /\ LkIdle

SpecStats == InitStats /\ [][StatsNext]_vars

(***************************************************************************)
(* CLAIMS                                                                  *)
(***************************************************************************)

BucketOrder == <<"quarantine", "hold", "system_notification", "external_image_request">>

SenderKeyOf(b) ==
    CASE b = "quarantine" -> "quarantine_senders"
      [] b = "hold" -> "held_senders"
      [] b = "system_notification" -> "system_notification_senders"
      [] b = "external_image_request" -> "transfer_senders"

DomainKeyOf(b) ==
    CASE b = "quarantine" -> "quarantine_domains"
      [] b = "hold" -> "held_domains"
      [] b = "system_notification" -> "system_notification_domains"
      [] b = "external_image_request" -> "transfer_domains"

SenderListed(s, p, i) ==
    /\ s.form /= "x500"
    /\ Addr(s.local, s.domain) \in p[SenderKeyOf(BucketOrder[i])]

DomainListed(s, p, i) ==
    /\ s.form /= "x500"
    /\ s.domain \in p[DomainKeyOf(BucketOrder[i])]

\* C10: a sender that matches the sender-level override of bucket A (its operative
\* override: no sender list of an earlier bucket holds it) and whose domain is in the
\* domain list of a different bucket B, of higher priority or lower, is acted on as
\* bucket A with match level "sender".
C10_SenderOverrideOutranksDomain ==
    cls_result /= Pending =>
        \A a \in 1..4 : \A b \in (1..4) \ {a} :
            ( /\ SenderListed(cls_sender, cls_policy, a)
              /\ \A h \in 1..(a-1) : ~SenderListed(cls_sender, cls_policy, h)
              /\ DomainListed(cls_sender, cls_policy, b) )
            => cls_result = Hit(BucketOrder[a], "sender")

\* C10 witness: an external_image_request sender override on a quarantined domain
\* has been classified.
C10_Witness ==
    /\ cls_result = Hit("external_image_request", "sender")
    /\ SenderListed(cls_sender, cls_policy, 4)
    /\ DomainListed(cls_sender, cls_policy, 1)

\* C8: within one run of the process, the last-known-good value of a config file
\* (and its hash) changes only at a tick whose freshly read file was readable,
\* parsed and validated, with a content hash different from the cached good
\* hash, and it changes to exactly that parsed value; a missing, unreadable,
\* undecodable, non-JSON or schema-invalid file never changes it.
C8_LkgStep(n) ==
    (cfg_hot'[n].lkg /= cfg_hot[n].lkg \/ cfg_hot'[n].lkg_sha /= cfg_hot[n].lkg_sha)
        => \/ cfg_starts' /= cfg_starts
           \/ /\ cfg_file' = cfg_file
              /\ cfg_file[n] /= MissingFile
              /\ cfg_read_ok'[n]
              /\ cfg_file[n].content.kind = "valid"
              /\ Sha(parse_fn(cfg_file[n].content)) /= cfg_hot[n].lkg_sha
              /\ cfg_hot'[n].lkg = parse_fn(cfg_file[n].content)
              /\ cfg_hot'[n].lkg_sha = Sha(parse_fn(cfg_file[n].content))
              /\ cfg_event'[n] = "CONFIG_CHANGED"

C8_LkgChangesOnlyOnValidatedChange == [][\A n \in CfgNames : C8_LkgStep(n)]_vars

C8_Witness ==
    /\ cfg_hot["staff"].lkg = "A"
    /\ cfg_hot["staff"].lkg_sha = Sha("A")
    /\ cfg_file["staff"].content.kind = "undecodable"
    /\ cfg_hot["staff"].seen_fp = cfg_file["staff"].mtime
    /\ ~cfg_read_ok["system_buckets"]

\* C9: while a config file holds valid JSON that fails schema validation, the
\* store keeps returning the value that was cached before the file changed, and
\* once a tick has seen the file's fingerprint exactly one CONFIG_INVALID event
\* has been emitted for it, however many ticks follow with that fingerprint.
C9_InvalidFileKeepsValueOneEvent ==
    \A n \in CfgNames :
        (cfg_file[n] /= MissingFile /\ cfg_file[n].content.kind = "schema_invalid")
            => /\ cfg_invalid_n[n] <= 1
               /\ cfg_hot[n].lkg = cfg_lkg_before[n]
               /\ (cfg_hot[n].seen_fp = cfg_file[n].mtime
                       => /\ cfg_invalid_n[n] = 1
                          /\ cfg_value[n] = cfg_lkg_before[n])

C9_Witness ==
    /\ cfg_file["staff"].content.kind = "schema_invalid"
    /\ cfg_hot["staff"].seen_fp = cfg_file["staff"].mtime
    /\ cfg_read_ok["staff"]
    /\ cfg_event["staff"] = None
    /\ cfg_invalid_n["staff"] = 1
    /\ cfg_value["staff"] = "A"

\* C3: with a roster of N members that has not changed, the latest N calls of
\* get_next_staff returned roster[i mod N], roster[(i+1) mod N], ...,
\* roster[(i+N-1) mod N], where i is the index persisted before the first of
\* them: every member exactly once, in roster order, across ticks and restarts.
C3_FullCycleInOrder ==
    (Len(rs_roster) > 0 /\ Len(rs_run) = Len(rs_roster))
        => \A k \in 1..Len(rs_roster) :
              rs_run[k][1] = rs_roster[((rs_run[1][2] + k - 1) % Len(rs_roster)) + 1]

\* C4: the persisted current_index and total_processed never decrease; a call
\* that returns a staff member leaves each exactly 1 higher on disk when it
\* returns; a call that returns None (empty roster) leaves the state unchanged.
C4_RotationStep ==
    /\ rs_file'.current_index >= rs_file.current_index
    /\ rs_file'.total_processed >= rs_file.total_processed
    /\ rs_ncalls' /= rs_ncalls =>
          IF rs_last'.person = None
          THEN rs_file' = rs_file
          ELSE /\ rs_file'.current_index = rs_file.current_index + 1
               /\ rs_file'.total_processed = rs_file.total_processed + 1

C4_MonotoneAndPersisted == [][C4_RotationStep]_vars

\* C1: however often the message with identity K is enumerated (same tick or
\* later ticks, with or without a restart), at most one fresh entry for K is
\* ever written to the ledger file and at most one stats row with event_type
\* ASSIGNED and msg_key K is appended.
C1_AtMostOneAssignment ==
    \A k \in Keys : ledger_gains[k] <= 1 /\ assigned_rows[k] <= 1

C1_Witness ==
    /\ mail[1].kind = "transfer"
    /\ assigned_rows["k1"] = 1
    /\ ledger_gains["k1"] = 1
    /\ tick = 2
    /\ pc = "next"
    /\ 1 \in visited
    /\ mail[1].loc = "inbox"
    /\ mail[1].unread

\* C2: whatever the point at which the process crashes or restarts, and
\* whatever the route that sends mail for a message, Send is issued for the
\* same message at most once over all ticks.
C2_SentAtMostOnce ==
    \A m \in Msgs : sent[m] <= 1

\* C5: an entry of the ledger file is never removed nor replaced by a freshly
\* created one, and a completion linked to K changes nothing in the tick's
\* ledger but the completion fields (completed_at, completed_by,
\* completion_source) of K's entry: no key is added.
C5_LedgerStep ==
    /\ \A k \in LedgerKeys :
          ledger_file[k] /= NoEntry
              => /\ ledger_file'[k] /= NoEntry
                 /\ ledger_file'[k].ts = ledger_file[k].ts
                 /\ ledger_file'[k].assigned_to = ledger_file[k].assigned_to
                 /\ ledger_file'[k].conversation_id = ledger_file[k].conversation_id
    /\ (pc = "completion" /\ pc' = "completion_save"
            /\ HasConversationId(Head(todo))
            /\ find_ledger_key_by_conversation_id(processed_ledger) /= None)
          => LET K == find_ledger_key_by_conversation_id(processed_ledger)
             IN  /\ \A k \in LedgerKeys \ {K} : processed_ledger'[k] = processed_ledger[k]
                 /\ processed_ledger'[K].completed_by /= None
                 /\ processed_ledger'[K] =
                        [processed_ledger[K] EXCEPT
                            !.completed_at = processed_ledger'[K].completed_at,
                            !.completed_by = processed_ledger'[K].completed_by,
                            !.completion_source = processed_ledger'[K].completion_source]

C5_EntriesKeptCompletionOnlyAdds == [][C5_LedgerStep]_vars

C5_Witness ==
    /\ ledger_file["k1"].assigned_to \in StaffAddrs
    /\ ledger_file["k1"].completed_by = "staff"
    /\ ledger_file["k1"].completion_source = "subject_keyword"
    /\ ledger_file["k2"] = NoEntry
    /\ mail[2].kind = "staff_completion"
    /\ mail[2].loc = "processed"

\* C6: a message (the only one with its identity K) whose processing has raised
\* on 3 consecutive ticks has a persisted poison count of 3 for K and is in the
\* quarantine folder, read, so that no later tick enumerates it.
C6_ThirdFailureQuarantines ==
    \A m \in Msgs :
        (fail_streak[m].n = 3 /\ \A o \in Msgs \ {m} : mail[o].key /= mail[m].key)
            => /\ poison_file[mail[m].key] = 3
               /\ mail[m].loc = "quarantine"
               /\ ~mail[m].unread

\* C7: when the processing of a message raised during a tick that ran to its
\* end, the loop body was entered for every message enumerated in that tick,
\* and every ledger key saved during the tick is in the ledger file.
C7_RaiseDoesNotStopTick ==
    (pc = "idle" /\ raised /= {})
        => /\ visited = enumerated
           /\ \A k \in tick_saved : ledger_file[k] /= NoEntry

\* C11: for a fixed policy snapshot a classified sender has exactly one bucket, and it
\* is a function of the sender and the snapshot alone.  If any sender list holds the
\* sender, the bucket is the first such list's bucket in the order quarantine > hold >
\* system_notification > external_image_request; otherwise, if any domain list holds
\* the domain, it is the first such list's bucket in the same order; with no explicit
\* match it is internal when the domain is an internal domain and unknown otherwise.
C11_AnySender == \E i \in 1..4 : SenderListed(cls_sender, cls_policy, i)

C11_AnyDomain == \E i \in 1..4 : DomainListed(cls_sender, cls_policy, i)

C11_OneBucketFixedPriority ==
    cls_result /= Pending =>
        /\ cls_result.bucket \in ExplicitBuckets \cup {"internal", "unknown"}
        /\ cls_result = EffectiveBucket(cls_sender, cls_policy)
        /\ \A i \in 1..4 :
              ( /\ SenderListed(cls_sender, cls_policy, i)
                /\ \A h \in 1..(i-1) : ~SenderListed(cls_sender, cls_policy, h) )
              => cls_result = Hit(BucketOrder[i], "sender")
        /\ \A i \in 1..4 :
              ( /\ ~C11_AnySender
                /\ DomainListed(cls_sender, cls_policy, i)
                /\ \A h \in 1..(i-1) : ~DomainListed(cls_sender, cls_policy, h) )
              => cls_result = Hit(BucketOrder[i], "domain")
        /\ (~C11_AnySender /\ ~C11_AnyDomain)
              => cls_result.bucket =
                    IF cls_sender.form /= "x500" /\ cls_sender.domain \in cls_policy["internal_domains"]
                    THEN "internal" ELSE "unknown"

\* C11 witness: a sender held in both the quarantine and the hold sender lists, on a
\* domain listed for system notifications and transfers, was classified as quarantine.
C11_Witness ==
    /\ cls_result = Hit("quarantine", "sender")
    /\ SenderListed(cls_sender, cls_policy, 1)
    /\ SenderListed(cls_sender, cls_policy, 2)
    /\ DomainListed(cls_sender, cls_policy, 3)
    /\ DomainListed(cls_sender, cls_policy, 4)

\* The kinds whose effective bucket is external_image_request and which are
\* neither noise nor a completion.
ImageRequestKinds == {"transfer", "transfer_sender"}

Assigned(m) ==
    /\ ledger_file[mail[m].key].assigned_to \in StaffAddrs
    /\ assigned_rows[mail[m].key] >= 1

\* C12: a new message whose effective bucket is external_image_request, by
\* its domain or by a sender-level override for a sender whose domain is in no
\* policy list, is assigned to the next roster member (ledger entry with that
\* assignee, ASSIGNED stats row) when it is filed as processed, and is never
\* held for the manager.
C12_ImageRequestAssignedNeverHeld ==
    \A m \in Msgs :
        mail[m].kind \in ImageRequestKinds =>
            /\ ledger_file[mail[m].key].assigned_to /= "hold"
            /\ mail[m].loc = "processed" => Assigned(m)

\* The observations made in the window that ends at time t.
InWindow(obs, t) == SelectSeq(obs, LAMBDA o : t - HIB_BURST_WINDOW_MIN <= o /\ o <= t)

\* C15: after a watchdog observation at time t the persisted event list is
\* exactly the observations made in [t - 30 min, t], and the count that was
\* tested against the threshold is the length of that list.
C15_PersistedListIsTheWindow ==
    wd_last.n > 0 =>
        /\ wd_file.hib_events = InWindow(wd_obs, wd_last.t)
        /\ wd_last.count = Len(wd_file.hib_events)

\* The alert condition of the latest observation, from the file it found.
AlertCondition ==
    /\ wd_last.count >= HIB_BURST_THRESHOLD
    /\ \/ wd_last.before.last_alert = <<>>
       \/ wd_last.t - wd_last.before.last_alert[1] >= HIB_BURST_COOLDOWN_MIN

\* C16: at a watchdog observation the two alert mails (manager, operations)
\* go out if and only if the pruned count is at least 15 and no alert is
\* recorded or 60 minutes have passed since the recorded one, and the alert
\* timestamp is then the observation time.  (Safe mode, which suppresses the
\* mails, is left aside.)
C16_AlertIffThresholdAndCooldown ==
    wd_last.n > 0 =>
        /\ wd_last.due <=> AlertCondition
        /\ ~wd_last.safe => wd_last.sends = (IF AlertCondition THEN 2 ELSE 0)
        /\ AlertCondition => wd_file.last_alert = <<wd_last.t>>

\* Safe mode as the specification words it: the live flag is not set, or the
\* inbox is a test folder and no override flag is set.
SafeModeActive == ~env.live \/ (env.test_inbox /\ ~(env.allow_test \/ env.legacy_ok))

SomeMailSent == (\E m \in Msgs : sent[m] > 0) \/ wd_last.sends > 0

\* C13: while safe mode is active no mail is sent on any path (staff forward,
\* hold notification, internal review, JIRA follow-up, 16110 escalation,
\* burst alert); mail is sent only when the live flag is set and the inbox is
\* not a test folder or an override flag is set.
C13_SafeModeSendsNothing ==
    /\ SafeModeActive => ~SomeMailSent
    /\ SomeMailSent => env.live /\ (~env.test_inbox \/ env.allow_test \/ env.legacy_ok)

\* A noise-rule HIB mail with a 16110 code went through the escalation and
\* brought the burst count to the threshold, live flag set, test inbox, no
\* override: neither the escalation nor the two alert mails were sent.
C13_Witness ==
    /\ env.live /\ env.test_inbox /\ ~env.allow_test /\ ~env.legacy_ok
    /\ mail[1].kind = "hib_noise" /\ mail[1].loc = "hib"
    /\ wd_last.n = 1 /\ wd_last.due /\ wd_last.outlook = "app" /\ wd_last.sends = 0
    /\ sent[1] = 0

Unread == {m \in Msgs : mail[m].loc = "inbox" /\ mail[m].unread}

\* C17: a tick that starts with unread messages while processed_ledger.json
\* does not exist is skipped: the file is not created, no message is taken up
\* and nothing else is written.
C17_MissingLedgerSkipsTick ==
    [][(pc = "idle" /\ ~ledger_present /\ Unread /= {})
        => (/\ ~ledger_present'
            /\ pc' = "idle"
            /\ UNCHANGED <<mail, ledger_file, rs_file, sent>>)]_vars

\* C18: a message that is not in the expected mailbox store is neither moved
\* nor forwarded and is not marked processed: no ledger entry for its
\* identity is persisted, no ASSIGNED stats row is written for it and the
\* rotation state is not advanced for it (it is the only unread message).
C18_WrongStoreNotProcessed ==
    \A m \in Msgs :
        (~mail[m].store_ok) =>
            /\ mail[m].loc = "inbox"
            /\ sent[m] = 0
            /\ ledger_file[mail[m].key] = NoEntry
            /\ assigned_rows[mail[m].key] = 0
            /\ rs_file = RosterState(0, 0)

\* The kinds that are given to a staff member: by the bucket-driven routing
\* and by the JIRA follow-up route.
AssignmentKinds == {"transfer", "internal_other", "jira"}

\* C19: with an empty roster a message that requires staff assignment stays
\* unread in the inbox, with no ledger entry, no move and no ASSIGNED row.
C19_EmptyRosterLeavesMessage ==
    rs_staff_file = <<>> =>
        \A m \in Msgs :
            mail[m].kind \in AssignmentKinds =>
                /\ mail[m].loc = "inbox" /\ mail[m].unread
                /\ ledger_file[mail[m].key] = NoEntry
                /\ ledger_file[JiraKey(mail[m].key)] = NoEntry
                /\ assigned_rows[mail[m].key] = 0

\* The completion signals: staff sender with the completion marker in the
\* subject, staff reply with the completion-CC address, support-staff sender
\* on an internal domain.
CompletionKinds == StaffKinds \cup {"sami_completion"}

\* C20: processing a completion signal never invokes the rotation scheduler:
\* roster_state.json keeps its counters and no ledger entry whose assignee is
\* a roster member is created for the message (it is the only unread message).
C20_CompletionNeverRotates ==
    \A m \in Msgs :
        mail[m].kind \in CompletionKinds =>
            /\ rs_file = RosterState(0, 0)
            /\ ledger_file[mail[m].key].assigned_to \notin StaffAddrs
            /\ ledger_file[JiraKey(mail[m].key)].assigned_to \notin StaffAddrs

Running == {p \in Procs : lk_pc[p] = "running"}

\* C14: under any interleaving of process starts, clean exits and kills, at
\* most one process at a time holds the lock and runs the pipeline.
C14_AtMostOneRunning == Cardinality(Running) <= 1

\* The staff completion messages: staff sender and the completion marker in
\* the subject.
MarkerKinds == {"staff_completion", "staff_completion_jira", "staff_completion_noconv"}

\* The ledger keys whose entry carries the conversation id of the messages.
ConversationEntries ==
    {k \in LedgerKeys : processed_ledger[k] /= NoEntry /\ processed_ledger[k].conversation_id}

\* What a ledger change made for the staff completion message m has to be.
C21_LinkOrRecord(m) ==
    IF HasConversationId(m) /\ ConversationEntries /= {}
    THEN \E K \in ConversationEntries :
            /\ \A k \in LedgerKeys \ {K} : processed_ledger'[k] = processed_ledger[k]
            /\ processed_ledger'[K].completed_at /= 0
            /\ processed_ledger'[K].completed_by /= None
            /\ processed_ledger'[K].completion_source /= None
            /\ processed_ledger'[K] =
                  [processed_ledger[K] EXCEPT
                      !.completed_at = processed_ledger'[K].completed_at,
                      !.completed_by = processed_ledger'[K].completed_by,
                      !.completion_source = processed_ledger'[K].completion_source]
    ELSE /\ \A k \in LedgerKeys \ {mail[m].key} : processed_ledger'[k] = processed_ledger[k]
         /\ processed_ledger[mail[m].key] = NoEntry
         /\ processed_ledger'[mail[m].key].assigned_to = "completed"

\* C21: whenever the ledger is changed for a staff completion message, then,
\* if an entry has the message's conversation id, exactly one such entry gets
\* completed_at, completed_by and completion_source and no key is gained;
\* otherwise exactly one entry, keyed by the message's identity and with
\* assigned_to "completed", is added.
C21_CompletionLinksOrRecords ==
    [][ ( /\ pc /= "idle" /\ pc' /= "idle"
          /\ todo /= <<>>
          /\ mail[Head(todo)].kind \in MarkerKinds
          /\ processed_ledger' /= processed_ledger )
        => C21_LinkOrRecord(Head(todo)) ]_vars

\* The text detect_risk searches, and whether a word of each list is in it.
RiskText == lower(risk_subject \o <<" ">> \o risk_body)
ActionPresent == \E i \in 1..Len(RISK_ACTIONS) : IsIn(RISK_ACTIONS[i], RiskText)
ContextPresent == \E i \in 1..Len(RISK_CONTEXT) : IsIn(RISK_CONTEXT[i], RiskText)
UrgencyPresent == \E i \in 1..Len(URGENCY_WORDS) : IsIn(URGENCY_WORDS[i], RiskText)

\* C22: detect_risk returns critical iff the importance flag is set or an
\* action and a context word are both present or an urgency and an action
\* word are both present; otherwise urgent iff an urgency word or an action
\* word is present; otherwise normal with no reason.
C22_RiskLevelTable ==
    risk_result /= <<>> =>
        LET level == risk_result[1][1]
            reason == risk_result[1][2]
            crit == \/ risk_importance
                    \/ ActionPresent /\ ContextPresent
                    \/ UrgencyPresent /\ ActionPresent
        IN  /\ level = "critical" <=> crit
            /\ ~crit => (level = "urgent" <=> (UrgencyPresent \/ ActionPresent))
            /\ (~crit /\ ~UrgencyPresent /\ ~ActionPresent) => (level = "normal" /\ reason = <<>>)
            /\ level \in {"critical", "urgent", "normal"}

\* An urgency word and an action word without a context word and without the
\* importance flag: rule 3 made it critical.
C22_Witness ==
    /\ risk_result /= <<>>
    /\ ~risk_importance /\ UrgencyPresent /\ ActionPresent /\ ~ContextPresent
    /\ risk_result[1][1] = "critical"

\* The kinds whose bucket is internal and whose sender is not on the staff
\* roster: on the support-staff allowlist, or not.
InternalSupportKinds == {"sami_completion"}
InternalQueryKinds == {"internal_other", "internal_nonstaff"}

\* C23: a new message of the internal bucket is an implicit completion when
\* its sender is on the support-staff allowlist (recorded as completed, never
\* forwarded), and otherwise, for an internal sender not on the staff roster,
\* is assigned to the next roster member: it is never sent to the manager for
\* review and, once filed as processed, has its assignment.
C23_InternalCompletionOrRotation ==
    \A m \in Msgs :
        /\ mail[m].kind \in InternalSupportKinds =>
              /\ ledger_file[mail[m].key].assigned_to \in {None, "completed"}
              /\ sent[m] = 0
        /\ mail[m].kind \in InternalQueryKinds =>
              /\ ledger_file[mail[m].key].assigned_to /= "manager_review"
              /\ mail[m].loc = "processed" => Assigned(m)

\* The kinds whose bucket is quarantine, system_notification, hold or unknown.
UnassignedBucketKinds == {"quarantine", "system_notification", "notification_jira",
                          "hold_bucket", "unknown"}

\* C24: when every message is of the bucket quarantine, system_notification,
\* hold or unknown, processing leaves roster_state.json as it was and sends
\* nothing to a roster member (no forward to an assignee of the roster, no
\* ledger entry and no ASSIGNED row with one); a quarantine-bucket message
\* gets no ledger entry at all, nothing is sent for it and it is in the inbox
\* or in the quarantine folder.
C24_NoRotationForUnassignedBuckets ==
    (\A n \in Msgs : mail[n].kind \in UnassignedBucketKinds) =>
        /\ rs_file = RosterState(0, 0)
        /\ \A m \in Msgs :
            /\ ~(sent[m] > 0 /\ assignee \in StaffAddrs)
            /\ ledger_file[mail[m].key].assigned_to \notin StaffAddrs
            /\ ledger_file[JiraKey(mail[m].key)].assigned_to \notin StaffAddrs
            /\ assigned_rows[mail[m].key] = 0
            /\ mail[m].kind = "quarantine" =>
                  /\ ledger_file[mail[m].key] = NoEntry
                  /\ sent[m] = 0
                  /\ mail[m].loc \in {"inbox", "quarantine"}

\* bot.lock is there and the process that wrote it is gone (it was killed:
\* a clean exit removes the file).
StaleLock == lk_file /= <<>> /\ \A q \in Procs : lk_pc[q] = "off"

\* C25: after the lock holder was killed, a later start clears the stale lock
\* and acquires it: while starts remain, a stale lock leads to a running
\* pipeline, on every platform.
C25_StaleLockRecovered ==
    (StaleLock /\ lk_launches < MaxLaunches) ~> (Running /= {})

\* Last-known-good of file n is replaced by the step.
LkgReplaced(n) ==
    cfg_hot'[n].lkg /= cfg_hot[n].lkg \/ cfg_hot'[n].lkg_sha /= cfg_hot[n].lkg_sha

\* The tick finds a new fingerprint on file n, and the file validates to the
\* content whose hash is the cached good hash.
SameGoodContent(n) ==
    /\ cfg_file[n] /= MissingFile
    /\ cfg_file[n].mtime /= cfg_hot[n].seen_fp
    /\ cfg_read_ok'[n]
    /\ cfg_file[n].content.kind = "valid"
    /\ Sha(parse_fn(cfg_file[n].content)) = cfg_hot[n].lkg_sha

\* A step of load_config_files_each_tick: of the steps that touch the config
\* state it is the one that writes no file and starts no process.
ConfigTickStep ==
    /\ cfg_file' = cfg_file
    /\ cfg_clock' = cfg_clock
    /\ cfg_starts' = cfg_starts

\* C26: at every tick, CONFIG_CHANGED is emitted for a config file exactly
\* when its last-known-good value is replaced; a changed fingerprint whose
\* validated content hash equals the cached good hash emits no event and
\* leaves last-known-good as it is.
C26_ChangedEventIffLkgReplaced ==
    [][ ConfigTickStep =>
          \A n \in CfgNames :
              /\ (cfg_event'[n] = "CONFIG_CHANGED") <=> LkgReplaced(n)
              /\ SameGoodContent(n) =>
                    /\ cfg_event'[n] = None
                    /\ ~LkgReplaced(n)
                    /\ cfg_hot'[n].seen_fp = cfg_file[n].mtime ]_vars

\* The good content A came back, rewritten, after an invalid version: the
\* third write of the file was seen without an event.
C26_Witness ==
    /\ cfg_file["staff"].mtime = 3
    /\ cfg_file["staff"].content = [kind |-> "valid", val |-> "A", fmt |-> "variant"]
    /\ cfg_hot["staff"].seen_fp = 3
    /\ cfg_hot["staff"].lkg = "A"
    /\ cfg_lkg_before["staff"] = "A"
    /\ cfg_event["staff"] = None
    /\ cfg_starts = 1

\* The rows as export_active_events sees them, and which of them are ASSIGNED
\* rows for a staff member dated inside the range (day 2).
KpiEvents == _normalise_rows(kpi_rows)
KpiAssignedInRange ==
    {i \in 1..Len(KpiEvents) : /\ KpiEvents[i].event_type = "ASSIGNED"
                               /\ KpiEvents[i].date = 2
                               /\ _is_staff(KpiEvents[i].assigned_to)}

\* A COMPLETED row dated no later than date_end carries row i's non-blank
\* sami_id (compared without case and surrounding blanks).
KpiClosed(i) ==
    \E j \in 1..Len(KpiEvents) :
        /\ KpiEvents[j].event_type = "COMPLETED"
        /\ KpiEvents[j].date <= 2
        /\ lower(strip(KpiEvents[j].sami_id)) /= <<>>
        /\ lower(strip(KpiEvents[j].sami_id)) = lower(strip(KpiEvents[i].sami_id))

KpiOutIdentities == {kpi_out[k].Identity : k \in 1..Len(kpi_out)}

\* C27: an ASSIGNED row for a staff member dated inside the range is among the
\* active tickets (by its identity) unless a COMPLETED row dated no later than
\* date_end carries the same non-blank sami_id or its identity is in the
\* reconciled set; every active ticket is such a row, listed once; and
\* summary.active_count is the number of rows export_active_events returns.
C27_ActiveUnlessClosedBySamiId ==
    kpi_done =>
        /\ \A i \in KpiAssignedInRange :
              KpiIdentity(KpiEvents[i]) \in KpiOutIdentities
                 <=> (~KpiClosed(i) /\ KpiIdentity(KpiEvents[i]) \notin kpi_reconciled)
        /\ \A k \in 1..Len(kpi_out) :
              \E i \in KpiAssignedInRange : KpiIdentity(KpiEvents[i]) = kpi_out[k].Identity
        /\ Cardinality(KpiOutIdentities) = Len(kpi_out)
        /\ kpi_active_count = Len(kpi_out)

\* An assignment with sami_id SAMI-1 and a completion whose subject has the
\* tag [SAMI-1] but whose sami_id is SAMI-2: the ticket stays active.
C27_Witness ==
    /\ kpi_done
    /\ Len(kpi_rows) = 2
    /\ kpi_rows[1].event_type = "ASSIGNED" /\ kpi_rows[1].sami_id = SamiOne
    /\ kpi_rows[1].assigned_to = KpiStaff /\ kpi_rows[1].date = 2
    /\ kpi_rows[2].event_type = "COMPLETED" /\ kpi_rows[2].sami_id = SamiTwo
    /\ kpi_rows[2].subject_tag = SamiOne /\ kpi_rows[2].date = 2
    /\ kpi_reconciled = {}
    /\ kpi_active_count = 1

\* The message identities with a persisted assignment to a roster member
\* (the ledger entry of the message or its JIRA follow-up entry).
PersistedAssignments ==
    {k \in Keys : \/ ledger_file[k].assigned_to \in StaffAddrs
                  \/ ledger_file[JiraKey(k)].assigned_to \in StaffAddrs}

\* C28: between ticks, the advances of the rotation state persisted so far
\* are matched one to one by persisted ledger entries assigned to a roster
\* member: total_processed and current_index equal the number of such entries.
C28_OneAdvancePerPersistedAssignment ==
    pc = "idle" =>
        /\ rs_file.total_processed = Cardinality(PersistedAssignments)
        /\ rs_file.current_index = Cardinality(PersistedAssignments)

\* C29: the poison counter of an identity is incremented only by a step that
\* processes the message with that identity: whenever poison_file[k] grows,
\* the message the loop is at has message identity k.
C29_PoisonOnlyForOwnMessage ==
    [][\A k \in Keys : poison_file'[k] > poison_file[k] =>
            todo /= <<>> /\ mail[Head(todo)].key = k]_vars

\* The kinds of message that take one of the routing paths which act on the
\* message and record it in the ledger: staff assignment, HIB routing,
\* internal non-staff review, JIRA follow-up, support-staff completion.
RecordedPathKinds ==
    {"transfer", "internal_other", "hib", "internal_nonstaff", "jira", "sami_completion"}

\* Message m is moved out of its folder by the routing (the quarantine of a
\* poison message in the except block is no routing path) or a mail about it
\* is sent in this step.
Transported(m) ==
    \/ sent'[m] > sent[m]
    \/ mail'[m].loc /= mail[m].loc /\ mail'[m].loc /= "quarantine"

\* C30: on the recording routing paths the ledger entry of a message is
\* persisted before a move or forward of the message is issued: a step that
\* moves or sends for message m starts with an entry for m in the ledger file.
C30_LedgerBeforeTransport ==
    [][\A m \in Msgs : (mail[m].kind \in RecordedPathKinds /\ Transported(m)) =>
            \/ ledger_file[mail[m].key] /= NoEntry
            \/ ledger_file[JiraKey(mail[m].key)] /= NoEntry]_vars

\* Lines 1106-1107, 1116-1131, 1140-1155, 1160-1172: load_config_files_each_tick
\* takes the legacy flat file for a configuration exactly when _reload_hot_json
\* returned None for it.
config_source(value) == IF value = None THEN "legacy" ELSE "structured"

\* C31: at every tick the legacy source is taken for a configuration only when
\* its structured file is absent, and no CONFIG_CHANGED event goes with it.
C31_LegacyOnlyWhenFileAbsent ==
    [][ ConfigTickStep =>
          \A n \in CfgNames :
              config_source(cfg_value'[n]) = "legacy" =>
                  /\ cfg_file[n] = MissingFile
                  /\ cfg_event'[n] /= "CONFIG_CHANGED" ]_vars

\* The parsed staff.json values the config model calls "A" and "B".
StaffValue(val) ==
    IF val = "A"
    THEN [staff |-> <<"alice", "bob">>, off_rotation |-> {"bob"}, leave |-> {}]
    ELSE [staff |-> <<"alice", "bob", "carol">>, off_rotation |-> {}, leave |-> {"carol"}]

\* The legacy staff.txt next to staff.json.
staff_txt == <<"dave">>

\* Lines 2479-2487: rr_staff_list, the roster of the hot-loaded staff config
\* (last-known-good when the file was rejected).
rr_staff_list(staff_cfg) ==
    SelectSeq(staff_cfg.staff,
              LAMBDA e : e \notin staff_cfg.off_rotation /\ e \notin staff_cfg.leave)

\* Lines 1338-1389: get_staff_list reads staff.json itself: a file that is
\* there, loads as JSON and holds a non-empty "staff" list gives staff minus
\* off_rotation minus leave; every other case ends in staff.txt.
get_staff_list(file) ==
    IF file /= MissingFile /\ file.content.kind = "valid"
          /\ StaffValue(file.content.val).staff /= <<>>
    THEN rr_staff_list(StaffValue(file.content.val))
    ELSE staff_txt

\* Lines 2768-2770 and 1930: the roster of the tick, used by get_next_staff
\* and the staff-sender checks, is what get_staff_list returns.
staff_list == get_staff_list(cfg_file["staff"])

\* C32: at a tick that finds staff.json present but invalid after a valid
\* version was loaded, the roster of the tick is the last-known-good roster.
C32_InvalidRosterKeepsLastKnownGood ==
    [][ (/\ ConfigTickStep
         /\ cfg_file["staff"] /= MissingFile
         /\ cfg_file["staff"].content.kind /= "valid"
         /\ cfg_hot'["staff"].lkg /= None)
        => staff_list = rr_staff_list(StaffValue(cfg_hot'["staff"].lkg)) ]_vars

\* C33: every send suppressed by safe mode has its log record, and the record
\* states the reason (env_missing or test_folder).
C33_SuppressedSendsLogged ==
    \A m \in Msgs :
        /\ Len(suppress_log[m]) = suppressed[m]
        /\ \A i \in 1..Len(suppress_log[m]) :
              /\ Len(suppress_log[m][i]) = 2
              /\ suppress_log[m][i][2] \in {"env_missing", "test_folder"}

\* Message m is still unread in the inbox and the ledger file holds an entry
\* for its identity that an earlier tick wrote.
PersistedNotMoved(m) ==
    /\ mail[m].loc = "inbox"
    /\ mail[m].unread
    /\ ledger_file[mail[m].key] /= NoEntry
    /\ ledger_file[mail[m].key].ts[1] < tick

\* C34: a message whose ledger entry was persisted on an earlier tick and
\* that was never moved is skipped at the identity lookup of every later
\* tick: its step goes on to the next message with no rotation advance, no
\* send, no ledger change and no stats row, and no step of a later tick
\* changes the poison count of its identity.
C34_PersistedEntrySkipsLaterTicks ==
    [][\A m \in Msgs :
          PersistedNotMoved(m) =>
              /\ (pc = "next" /\ todo /= <<>> /\ Head(todo) = m) =>
                    /\ pc' \in {"next", "idle"}
                    /\ UNCHANGED <<rs_file, sent, ledger_file, assigned_rows, mail>>
              /\ poison_file'[mail[m].key] = poison_file[mail[m].key]]_vars

\* C35: every data row of the stats file has as many columns as the file's
\* header row.
C35_RowsMatchHeaderWidth ==
    stats_file.lines /= <<>> =>
        \A i \in 1..Len(StatsDataRows(stats_file)) :
            Len(StatsDataRows(stats_file)[i]) = Len(Head(stats_file.lines))

\* The ledger save of lines 3542-3545 fails in this step.
LedgerSaveFails == pc = "ledger" /\ pc' = "next" /\ faults' = faults + 1

\* The ledger save of lines 3542 succeeds in this step.
LedgerSaveDone == pc = "ledger" /\ pc' \in {"forward", "silent_unread"}

\* C36: a failed ledger save for a message leaves the message unread and
\* unsent and its entry in the tick's in-memory ledger; a successful save
\* writes the whole in-memory ledger, that entry included; and a message
\* that is unread with an entry of an earlier tick in the file is skipped at
\* the lookup, never sent.
C36_FailedSaveEntryPersistsLater ==
    [][ /\ LedgerSaveFails =>
              /\ processed_ledger'[message_key] /= NoEntry
              /\ processed_ledger'[message_key].assigned_to = assignee
              /\ UNCHANGED <<ledger_file, sent, mail>>
        /\ LedgerSaveDone => ledger_file' = processed_ledger'
        /\ \A m \in Msgs :
              (/\ PersistedNotMoved(m)
               /\ pc = "next" /\ todo /= <<>> /\ Head(todo) = m)
              => /\ pc' \in {"next", "idle"}
                 /\ UNCHANGED <<rs_file, sent, ledger_file, assigned_rows, mail>> ]_vars

\* The entry of message 1 missed its own save on tick 1, reached the file
\* with the save made for message 2, and tick 2 skipped message 1: unread,
\* never sent, never counted as poison.
C36_Witness ==
    /\ tick = 2
    /\ pc = "next"
    /\ 1 \in visited
    /\ faults = 1
    /\ mail[1].loc = "inbox" /\ mail[1].unread
    /\ sent[1] = 0
    /\ poison_file["k1"] = 0
    /\ ledger_file["k1"].ts = <<1, 1>>
    /\ ledger_file["k1"].assigned_to \in StaffAddrs
    /\ ledger_file["k2"].ts = <<1, 2>>
    /\ sent[2] = 1
    /\ mail[2].loc = "processed"

\* C37: a message with the HIB notification signature is never assigned to a
\* roster member and never advances the rotation state.
C37_HibNeverAssigned ==
    \A m \in Msgs :
        mail[m].kind = "hib" =>
            /\ rs_file = RosterState(0, 0)
            /\ ledger_file[mail[m].key].assigned_to \notin StaffAddrs
            /\ (pc /= "idle" /\ todo /= <<>> /\ Head(todo) = m) => assignee \notin StaffAddrs

\* C38: the burst-alert cooldown starts only when an alert was sent: an
\* observation whose two alert sends both sent nothing leaves last_alert_iso
\* as it was.
C38_CooldownStartsOnlyWhenSent ==
    (wd_last.n > 0 /\ wd_last.due /\ wd_last.sends = 0) =>
        wd_file.last_alert = wd_last.before.last_alert

\* Live mode is armed between two ticks: the bot is started again with
\* TRANSFER_BOT_LIVE set (and the test folder allowed), which
\* determine_safe_mode reads from the environment.
ArmLive ==
    /\ pc = "idle"
    /\ determine_safe_mode(env)
    /\ env' = [env EXCEPT !.live = TRUE, !.allow_test = TRUE]
    /\ UNCHANGED <<mail, policy_shape, ledger_file, poison_file, pc, todo, processed_ledger,
                   message_key, assignee, tick, faults, sent, safeLog, assigned_rows, ledger_gains,
                   enumerated, visited, raised, tick_saved, fail_streak, safe_mode_cache,
                   ledger_present, wrong_rows, outlook_app>>

ArmNext ==
    \/ Next
    \/ ArmLive /\ UNCHANGED <<clsVars, cfgVars, rsVars, wdVars, lkVars, fnVars>>

\* The pipeline in any environment, with live mode armed at some point.
SpecArm == InitEnv /\ [][ArmNext]_vars

\* The staff forward of message m had its Send suppressed by safe mode.
SafeRoutedToStaff(m) ==
    /\ mail[m].kind \in {"transfer", "internal_other"}
    /\ suppressed[m] > 0
    /\ ledger_file[mail[m].key].assigned_to \in StaffAddrs

\* The loop is at message m, at one of the given steps.
AtStep(m, steps) == pc \in steps /\ todo /= <<>> /\ Head(todo) = m

\* C39: safe mode suppresses only the Send.  For a message routed to staff in
\* safe mode the ledger entry with the assignee is persisted and nothing is
\* ever sent for it, also after live mode is armed; when nothing fails, the
\* rotation state has advanced by one, an ASSIGNED stats row is appended and
\* the message is marked read and moved to the processed folder.
C39_SafeModeSuppressesOnlySend ==
    \A m \in Msgs :
        SafeRoutedToStaff(m) =>
            /\ sent[m] = 0
            /\ faults = 0 =>
                /\ rs_file = RosterState(1, 1)
                /\ AtStep(m, {"stats"}) \/ assigned_rows[mail[m].key] = 1
                /\ AtStep(m, {"stats", "unread"}) \/ ~mail[m].unread
                /\ AtStep(m, {"stats", "unread", "move"}) \/ mail[m].loc = "processed"

\* A message routed to staff in safe mode sits in the processed folder, live
\* mode is armed and the last tick is over.
C39_Witness ==
    /\ SafeRoutedToStaff(1)
    /\ faults = 0
    /\ mail[1].loc = "processed"
    /\ ~determine_safe_mode(env)
    /\ pc = "idle"
    /\ tick = MaxTicks

\* The count of the ticks is capped: after MaxTicks ticks it is no longer
\* kept, and the main loop of lines 3805-3853 goes on calling process_inbox.
TickRewind ==
    /\ pc = "idle"
    /\ tick = MaxTicks
    /\ tick' = MaxTicks - 1
    /\ UNCHANGED <<mail, policy_shape, ledger_file, poison_file, pc, todo, processed_ledger,
                   message_key, assignee, faults, sent, safeLog, assigned_rows, ledger_gains,
                   enumerated, visited, raised, tick_saved, fail_streak, pipeAux>>

PoisonNext ==
    \/ Next
    \/ TickRewind /\ UNCHANGED <<clsVars, cfgVars, rsVars, wdVars, lkVars, fnVars>>

\* One unread message of any kind in the expected store, whose Forward works
\* or raises, under a domain policy that is well formed or has a non-string
\* element in sami_support_staff.
PoisonInit ==
    /\ mail \in { [m \in Msgs |->
                     IF m = 1 THEN [Message(k, "k1") EXCEPT !.forward_ok = f]
                     ELSE [Message("quarantine", "k2") EXCEPT !.loc = "quarantine", !.unread = FALSE]] :
                   k \in Kinds, f \in BOOLEAN }
    /\ policy_shape \in {"ok", "sami_support_staff"}
    /\ faults = 0
    /\ env = LiveEnv
    /\ ledger_present = TRUE
    /\ PipeStart

InitPoison == PoisonInit /\ RsPipeInit /\ ClsIdle /\ CfgIdle /\ WdBurst(<<>>) /\ LkIdle /\ FnIdle

\* The main loop keeps calling process_inbox and every tick runs to its end.
SpecPoison == InitPoison /\ [][PoisonNext]_vars /\ WF_vars(PoisonNext)

\* The processing of message m raises on every tick: in the per-message
\* handler (the domain policy makes is_sami_support_staff raise), or in the
\* handler of the internal non-staff path (its Forward raises).
RaisesInLoopBody(m) ==
    /\ mail[m].kind \in {"internal_other", "sami_completion"}
    /\ policy_shape = "sami_support_staff"

RaisesInReviewPath(m) ==
    /\ mail[m].kind = "internal_nonstaff"
    /\ ~mail[m].forward_ok

\* C40: with ticks firing for ever, every unread message whose processing
\* fails on every tick is eventually moved to quarantine, whichever handler
\* catches the failure.
C40_FailingMessageQuarantined ==
    \A m \in Msgs :
        (mail[m].unread /\ mail[m].loc = "inbox" /\ (RaisesInLoopBody(m) \/ RaisesInReviewPath(m)))
            ~> (mail[m].loc = "quarantine")

====
